---- MODULE Spec2Model ----
(***************************************************************************)
(* Verification model of the SCPI instrument-protocol substrate:           *)
(*   - the socket transport and its deterministic double                   *)
(*     (siglent/connection/socket.py, siglent/connection/mock.py),         *)
(*   - polling workers sharing one connection (gui/live_view_worker.py,    *)
(*     gui/daq_worker.py),                                                 *)
(*   - the IEEE-488.2 block decoder (siglent/waveform.py),                 *)
(*   - the command catalogs (awg_scpi_commands.py, daq_scpi_commands.py),  *)
(*   - the capability registries (awg_models.py, daq_models.py).           *)
(* Each part has its own specification over the shared variables; the      *)
(* variables of the other parts keep their initial value.                  *)
(***************************************************************************)
EXTENDS Integers, Sequences, FiniteSets, TLC

VARIABLES
    impl,      \* which transport object the behaviour drives: "socket" | "mock"
    sc,        \* SocketConnection: _connected, _socket, timeout in force, and the TCP stream
    mc,        \* MockConnection: _connected and the lengths of its writes/queries logs
    last,      \* the last transport call: operation, state before, outcome, value
    th,        \* the threads using one connection: position, request number, answer
    running,   \* the polling worker's running flag
    raw,       \* the bytes handed to the block decoder
    fmt,       \* the sample format asked for: "BYTE" | "WORD"
    parsed,    \* what _parse_waveform returned or raised
    req,       \* a catalog lookup: family, variant, command name, keyword parameters
    res,       \* what get_command returned or raised
    idn,       \* an identification string and the instrument family asked about it
    profile,   \* what detect returned or raised
    registry,  \* the model registries of the process, by instrument family
    prev,      \* the detect call before the last one: its string and its result
    facade,    \* a DataLogger or FunctionGenerator object
    orig,      \* the voltages a waveform payload was made from
    wave,      \* an acquisition: scale, offset, the mock's payload, the voltages made
    call,      \* the last setter or acquire call: its argument, what it raised and wrote
    fop,       \* the last facade operation: the error met below it and the error raised
    twin,      \* the last call made on a socket connection and on a double alike
    wk,        \* a polling worker thread: its position, its flag and what stop() found
    canned     \* the double's canned responses and the queries made of them

transportVars == <<impl, sc, mc, last>>
threadVars == <<th, running>>
decodeVars == <<raw, fmt, parsed>>
catalogVars == <<req, res>>
detectVars == <<idn, profile>>
registryVars == <<registry, prev, facade>>
acquireVars == <<orig, wave>>
setterVars == <<call>>
facadeOpVars == <<fop>>
twinVars == <<twin>>
cancelVars == <<wk>>
cannedVars == <<canned>>

(***************************************************************************)
(* Bounds of the transport model.                                          *)
(***************************************************************************)
\* commands that reach the instrument on one socket connection
MaxSent == 2
\* entries recorded in each of the double's logs (writes, queries)
MaxMockLog == 2

(***************************************************************************)
(* The TCP stream, in items.  The instrument answers a query command with  *)
(* an optional NUL byte, a body and a line terminator; every item carries  *)
(* the number of the command it answers.                                   *)
(***************************************************************************)
Item(i, b) == [id |-> i, b |-> b]

ResponseItems(i, nul) ==
    (IF nul THEN <<Item(i, "nul")>> ELSE <<>>) \o <<Item(i, "d"), Item(i, "nl")>>

\* The two kinds of command text: a query (ends in "?", the instrument
\* answers it) and a setting (no answer).
Commands == {"qry", "set"}

RECURSIVE LStrip(_, _)
LStrip(s, drop) ==
    IF s # <<>> /\ Head(s).b \in drop THEN LStrip(Tail(s), drop) ELSE s

RECURSIVE RStrip(_, _)
RStrip(s, drop) ==
    IF s # <<>> /\ s[Len(s)].b \in drop THEN RStrip(SubSeq(s, 1, Len(s) - 1), drop) ELSE s

\* data.decode("ascii").strip() then .lstrip("\x00")
ResponseText(data) == LStrip(RStrip(LStrip(data, {"nl"}), {"nl"}), {"nul"})

Drop(s, n) == SubSeq(s, n + 1, Len(s))
Take(s, n) == SubSeq(s, 1, n)

(***************************************************************************)
(* SocketConnection.  c is the connection record:                          *)
(*   connected  _connected                                                 *)
(*   sock       _socket: "None", or the state of the socket object         *)
(*              ("unconnected" after a failed connect, "open", "broken"    *)
(*              after a socket error)                                      *)
(*   tmo        the timeout set on the socket: "primary" | "secondary"     *)
(*   nsent      commands sent on this socket                               *)
(*   inflight   response items the instrument has not delivered yet        *)
(*   rxbuf      response items waiting in the socket's receive buffer      *)
(*   nrecv      response items taken from this socket by recv              *)
(*   peer       "up" | "closed"                                            *)
(* Every operation returns [c, out, val]: the connection after the call,   *)
(* "ok" or the exception raised, and the value returned.                   *)
(***************************************************************************)
Ret(c, out, val) == [c |-> c, out |-> out, val |-> val]

SocketInit ==
    [connected |-> FALSE, sock |-> "None", tmo |-> "primary", nsent |-> 0, nrecv |-> 0,
     inflight |-> <<>>, rxbuf |-> <<>>, peer |-> "up"]

\* `if not self._connected or not self._socket` of write, read and read_raw
NotConnected_NoFlag(c) == c.sock = "None"
NotConnected(c) == ~c.connected \/ c.sock = "None"

ConnectOutcomes == {"ok", "refused", "timeout"}

\* connect(): a no-op when connected; otherwise a new socket object replaces
\* the old one before the attempt, whatever its outcome.
SocketConnect(c, outcome) ==
    IF c.connected THEN Ret(c, "ok", <<>>)
    ELSE IF outcome = "ok"
         THEN Ret([SocketInit EXCEPT !.connected = TRUE, !.sock = "open"], "ok", <<>>)
         ELSE Ret([SocketInit EXCEPT !.sock = "unconnected"],
                  IF outcome = "timeout" THEN "TimeoutError" ELSE "ConnectionError", <<>>)

\* A disconnect that closes the socket and keeps the connected flag.
SocketDisconnect_KeepFlag(c) ==
    IF c.sock # "None" THEN Ret([SocketInit EXCEPT !.connected = c.connected], "ok", <<>>)
    ELSE Ret(c, "ok", <<>>)

SocketDisconnect(c) ==
    IF c.sock # "None" THEN Ret(SocketInit, "ok", <<>>) ELSE Ret(c, "ok", <<>>)

WriteFaults == {"none", "timeout", "error"}

\* A write whose socket error leaves the connected flag as it was.
SocketWrite_KeepsFlag(c, cmd, fault, nul) ==
    IF NotConnected(c) THEN Ret(c, "ConnectionError", <<>>)
    ELSE IF fault = "timeout" THEN Ret(c, "TimeoutError", <<>>)
    ELSE IF fault = "error" THEN Ret([c EXCEPT !.sock = "broken"], "ConnectionError", <<>>)
    ELSE Ret([c EXCEPT !.nsent = @ + 1,
                       !.inflight = IF cmd = "qry" /\ c.peer = "up"
                                    THEN @ \o ResponseItems(c.nsent + 1, nul)
                                    ELSE @],
             "ok", <<>>)

\* write(command): fault is what sendall does; nul says whether the instrument
\* prepends a NUL byte to its answer.  A closed peer answers nothing.
SocketWrite(c, cmd, fault, nul) ==
    IF NotConnected(c) THEN Ret(c, "ConnectionError", <<>>)
    ELSE IF fault = "timeout" THEN Ret(c, "TimeoutError", <<>>)
    ELSE IF fault = "error"
         THEN Ret([c EXCEPT !.connected = FALSE, !.sock = "broken"], "ConnectionError", <<>>)
    ELSE Ret([c EXCEPT !.nsent = @ + 1,
                       !.inflight = IF cmd = "qry" /\ c.peer = "up"
                                    THEN @ \o ResponseItems(c.nsent + 1, nul)
                                    ELSE @],
             "ok", <<>>)

\* What the blocking recv loop of read() can meet: k items arrive while the
\* call blocks, and the loop returns at the first recv whose accumulated data
\* ends with the terminator, i.e. after n items for some n with a terminator at
\* position n (a recv may return a chunk that runs past an earlier terminator).
\* n = 0: the loop consumed everything without returning, which needs the data
\* not to end with a terminator.
ReadChoiceOK(c, k, n) ==
    /\ k \in 0..Len(c.inflight)
    /\ LET stream == c.rxbuf \o Take(c.inflight, k)
       IN  IF n = 0
           THEN (IF stream = <<>> THEN TRUE ELSE stream[Len(stream)].b # "nl")
           ELSE (IF n \in 1..Len(stream) THEN stream[n].b = "nl" ELSE FALSE)

ReadFaults == {"none", "error"}

SocketRead(c, fault, k, n) ==
    IF NotConnected(c) THEN Ret(c, "ConnectionError", <<>>)
    ELSE LET stream == c.rxbuf \o Take(c.inflight, k)
             rest   == Drop(c.inflight, k)
             \* everything that arrived has been taken
             all    == [c EXCEPT !.rxbuf = <<>>, !.inflight = rest,
                                 !.nrecv = @ + Len(stream)]
         IN  IF fault = "error"
             THEN Ret([all EXCEPT !.connected = FALSE, !.sock = "broken"],
                      "ConnectionError", <<>>)
             ELSE IF n > 0
             THEN Ret([c EXCEPT !.rxbuf = Drop(stream, n), !.inflight = rest,
                                !.nrecv = @ + n],
                      "ok", ResponseText(Take(stream, n)))
             ELSE IF c.peer = "closed"
             THEN Ret(all, "ok", ResponseText(stream))
             ELSE Ret(all, "TimeoutError", <<>>)

\* query(command): write, settle delay, read
SocketQuery(c, cmd, wfault, nul, rfault, k, n) ==
    LET w == SocketWrite(c, cmd, wfault, nul)
    IN  IF w.out # "ok" THEN w ELSE SocketRead(w.c, rfault, k, n)

\* A read_raw whose drain leaves the secondary timeout on the socket.
SocketReadRaw_NoRestore(c, size, fault, k) ==
    IF NotConnected(c) THEN Ret(c, "ConnectionError", <<>>)
    ELSE LET stream == c.rxbuf \o Take(c.inflight, k)
             rest   == Drop(c.inflight, k)
             all    == [c EXCEPT !.rxbuf = <<>>, !.inflight = rest,
                                 !.nrecv = @ + Len(stream),
                                 !.tmo = IF size = 0 THEN "secondary" ELSE @]
             broken == [all EXCEPT !.connected = FALSE, !.sock = "broken"]
         IN  IF fault = "error" THEN Ret(broken, "ConnectionError", <<>>)
             ELSE IF size = 0 THEN Ret(all, "ok", stream)
             ELSE IF Len(stream) >= size
             THEN Ret([c EXCEPT !.rxbuf = Drop(stream, size), !.inflight = rest,
                                !.nrecv = @ + size],
                      "ok", Take(stream, size))
             ELSE IF c.peer = "closed" THEN Ret(all, "ok", stream)
             ELSE Ret(broken, "ConnectionError", <<>>)

\* read_raw(size): size = 0 stands for None (drain under the secondary timeout
\* until it fires, then restore the primary one); size > 0 reads that many
\* items.  A stall of the sized read is a socket.timeout, which the only
\* handler there, `except socket.error`, catches.
SocketReadRaw(c, size, fault, k) ==
    IF NotConnected(c) THEN Ret(c, "ConnectionError", <<>>)
    ELSE LET stream == c.rxbuf \o Take(c.inflight, k)
             rest   == Drop(c.inflight, k)
             all    == [c EXCEPT !.rxbuf = <<>>, !.inflight = rest,
                                 !.nrecv = @ + Len(stream), !.tmo = "primary"]
             broken == [all EXCEPT !.connected = FALSE, !.sock = "broken"]
         IN  IF fault = "error" THEN Ret(broken, "ConnectionError", <<>>)
             ELSE IF size = 0 THEN Ret(all, "ok", stream)
             ELSE IF Len(stream) >= size
             THEN Ret([c EXCEPT !.rxbuf = Drop(stream, size), !.inflight = rest,
                                !.nrecv = @ + size],
                      "ok", Take(stream, size))
             ELSE IF c.peer = "closed" THEN Ret(all, "ok", stream)
             ELSE Ret(broken, "ConnectionError", <<>>)

(***************************************************************************)
(* MockConnection: the connected flag and the lengths of the writes and    *)
(* queries logs.                                                           *)
(***************************************************************************)
MockInit == [connected |-> FALSE, writes |-> 0, queries |-> 0]

MockConnect(m) == Ret([m EXCEPT !.connected = TRUE], "ok", <<>>)

MockDisconnect(m) == Ret([m EXCEPT !.connected = FALSE], "ok", <<>>)

MockWrite(m, cmd) ==
    IF ~m.connected THEN Ret(m, "ConnectionError", <<>>)
    ELSE Ret([m EXCEPT !.writes = @ + 1], "ok", <<>>)

MockRead(m) ==
    IF ~m.connected THEN Ret(m, "ConnectionError", <<>>) ELSE Ret(m, "ok", <<>>)

\* query(command) answers from the canned state; the answer belongs to the
\* command asked (id 0: the double has no stream).
MockQuery(m, cmd) ==
    IF ~m.connected THEN Ret(m, "ConnectionError", <<>>)
    ELSE Ret([m EXCEPT !.queries = @ + 1], "ok",
             IF cmd = "qry" THEN <<Item(0, "d")>> ELSE <<>>)

MockReadRaw(m, size) ==
    IF ~m.connected THEN Ret(m, "ConnectionError", <<>>)
    ELSE Ret(m, "ok", <<Item(0, "d")>>)

(***************************************************************************)
(* Transport behaviours: any sequence of calls on one connection object,   *)
(* with the instrument delivering its answers at its own pace.             *)
(***************************************************************************)
\* The threads, before any worker is started.
Threads == {"worker", "caller"}

ThreadsInit == [t \in Threads |-> [pc |-> IF t = "worker" THEN "unstarted" ELSE "idle",
                                   id |-> 0, got |-> <<>>]]

ThreadsIdle == th = ThreadsInit /\ running = FALSE

\* The decoder, before any block is handed to it.
Pending == [kind |-> "pending", msg |-> "", codes |-> <<>>]

DecodeIdle == raw = <<>> /\ fmt = "BYTE" /\ parsed = Pending

\* The catalogs, before any lookup.
NoRequest == [family |-> "none", variant |-> "generic", op |-> "none", kw |-> <<>>]

NoResult == [kind |-> "none", out |-> <<>>, op |-> "", key |-> ""]

CatalogIdle == req = NoRequest /\ res = NoResult

DAQCapability(model_name, manufacturer, has_internal_dmm, has_timestamp, has_alarm, has_math, scpi_variant) ==
    [kind |-> "profile", model_name |-> model_name, manufacturer |-> manufacturer,
     scpi_variant |-> scpi_variant,
     flags |-> [has_internal_dmm |-> has_internal_dmm, has_timestamp |-> has_timestamp,
                has_alarm |-> has_alarm, has_math |-> has_math]]

AWGCapability(model_name, manufacturer, has_modulation, has_sweep, has_burst, has_arbitrary, has_noise, scpi_variant) ==
    [kind |-> "profile", model_name |-> model_name, manufacturer |-> manufacturer,
     scpi_variant |-> scpi_variant,
     flags |-> [has_modulation |-> has_modulation, has_sweep |-> has_sweep,
                has_burst |-> has_burst, has_arbitrary |-> has_arbitrary,
                has_noise |-> has_noise]]

\* parts[i] on a list that has no such element
IndexError == [kind |-> "IndexError", model_name |-> <<>>, manufacturer |-> <<>>,
               scpi_variant |-> "", flags |-> <<>>]

DAQ_MODEL_REGISTRY ==
    <<
       [key |-> <<"3", "4", "9", "7", "0", "A">>,
        cap |-> DAQCapability(<<"3", "4", "9", "7", "0", "A">>,
                             <<"K", "e", "y", "s", "i", "g", "h", "t">>,
                             TRUE, TRUE, TRUE, TRUE, "keysight_daq")],
       [key |-> <<"3", "4", "9", "7", "2", "A">>,
        cap |-> DAQCapability(<<"3", "4", "9", "7", "2", "A">>,
                             <<"K", "e", "y", "s", "i", "g", "h", "t">>,
                             TRUE, TRUE, TRUE, TRUE, "keysight_daq")],
       [key |-> <<"D", "A", "Q", "9", "7", "0", "A">>,
        cap |-> DAQCapability(<<"D", "A", "Q", "9", "7", "0", "A">>,
                             <<"K", "e", "y", "s", "i", "g", "h", "t">>,
                             TRUE, TRUE, TRUE, TRUE, "keysight_daq")],
       [key |-> <<"D", "A", "Q", "9", "7", "3", "A">>,
        cap |-> DAQCapability(<<"D", "A", "Q", "9", "7", "3", "A">>,
                             <<"K", "e", "y", "s", "i", "g", "h", "t">>,
                             FALSE, TRUE, TRUE, FALSE, "keysight_daq")]
    >>

AWG_MODEL_REGISTRY ==
    <<
       [key |-> <<"S", "D", "G", "1", "0", "3", "2", "X">>,
        cap |-> AWGCapability(<<"S", "D", "G", "1", "0", "3", "2", "X">>,
                             <<"S", "i", "g", "l", "e", "n", "t">>,
                             TRUE, TRUE, TRUE, TRUE, TRUE, "siglent_sdg")],
       [key |-> <<"S", "D", "G", "1", "0", "2", "5">>,
        cap |-> AWGCapability(<<"S", "D", "G", "1", "0", "2", "5">>,
                             <<"S", "i", "g", "l", "e", "n", "t">>,
                             TRUE, TRUE, TRUE, TRUE, TRUE, "siglent_sdg")],
       [key |-> <<"S", "D", "G", "1", "0", "2", "0">>,
        cap |-> AWGCapability(<<"S", "D", "G", "1", "0", "2", "0">>,
                             <<"S", "i", "g", "l", "e", "n", "t">>,
                             TRUE, TRUE, TRUE, TRUE, TRUE, "siglent_sdg")],
       [key |-> <<"S", "D", "G", "2", "1", "2", "2", "X">>,
        cap |-> AWGCapability(<<"S", "D", "G", "2", "1", "2", "2", "X">>,
                             <<"S", "i", "g", "l", "e", "n", "t">>,
                             TRUE, TRUE, TRUE, TRUE, TRUE, "siglent_sdg")],
       [key |-> <<"S", "D", "G", "2", "0", "8", "2", "X">>,
        cap |-> AWGCapability(<<"S", "D", "G", "2", "0", "8", "2", "X">>,
                             <<"S", "i", "g", "l", "e", "n", "t">>,
                             TRUE, TRUE, TRUE, TRUE, TRUE, "siglent_sdg")],
       [key |-> <<"S", "D", "G", "2", "0", "4", "2", "X">>,
        cap |-> AWGCapability(<<"S", "D", "G", "2", "0", "4", "2", "X">>,
                             <<"S", "i", "g", "l", "e", "n", "t">>,
                             TRUE, TRUE, TRUE, TRUE, TRUE, "siglent_sdg")]
    >>

\* the registries as the modules define them when they are imported
LoadedRegistry == [daq |-> DAQ_MODEL_REGISTRY, awg |-> AWG_MODEL_REGISTRY]

\* The registries, before any detection.
NoIdn == [family |-> "none", text |-> <<>>]

NoProfile == [kind |-> "none", model_name |-> <<>>, manufacturer |-> <<>>, scpi_variant |-> "",
              flags |-> <<>>]

DetectIdle == idn = NoIdn /\ profile = NoProfile

\* a facade object after __init__
NoCapability == [ref |-> 0, cap |-> NoProfile]

NoInfo == [manufacturer |-> <<>>, model |-> <<>>]

NewFacade ==
    [family |-> "none", connected |-> FALSE, model_capability |-> NoCapability,
     device_info |-> NoInfo, variant |-> "", raised |-> "none", cycled |-> FALSE]

NoPrev == [idn |-> NoIdn, profile |-> NoProfile]

RegistryIdle == registry = LoadedRegistry /\ prev = NoPrev /\ facade = NewFacade

\* no acquisition yet
NoWave == [stage |-> "none", scale |-> 1, offset |-> 0, payload |-> <<>>, voltage |-> <<>>]

AcquireIdle == orig = <<>> /\ wave = NoWave

\* no setter called yet
NotCalled == [op |-> "none", variant |-> "", ch |-> 0, value |-> 0, raised |-> "none",
              sent |-> <<>>]

SettersIdle == call = NotCalled

\* a facade on which nothing was called yet
NoFacadeOp == [family |-> "none", connected |-> FALSE, op |-> "none", cause |-> "none",
               raised |-> "none"]

FacadeOpsIdle == fop = NoFacadeOp

\* no call made on both transports yet
NoTwin == [op |-> "none", cmd |-> "none", sout |-> "ok", mout |-> "ok",
           q |-> <<>>, wr |-> <<>>]

TwinIdle == twin = NoTwin

\* a worker object that was not started
NoWorker(kind, limited) ==
    [kind |-> kind, limited |-> limited, pc |-> "unstarted", running |-> FALSE,
     connected |-> TRUE, todo |-> <<>>, phase |-> "none",
     stopAsked |-> FALSE, raced |-> FALSE, doneSinceStop |-> FALSE, late |-> FALSE,
     newCycle |-> FALSE]

CancelIdle == wk = NoWorker("live", FALSE)

\* a custom response that is not given
Absent == [kind |-> "absent", items |-> <<>>]

\* MockConnection(trigger_status = status, custom_responses = custom), and
\* what the behaviour remembers: the list each canned list started from,
\* the queries each has answered since, and the last query
NewMock(status, custom) ==
    [trigger_status |-> IF status # <<>> THEN status ELSE <<"Stop">>,
     custom_responses |-> custom,
     status_given |-> status,
     base |-> [l \in {"MEAS?", "TRIG:STAT?"} |-> custom[l].items] @@ [status |-> IF status # <<>> THEN status ELSE <<"Stop">>],
     nq |-> [l \in {"MEAS?", "TRIG:STAT?", "status"} |-> 0],
     armed |-> FALSE, since_arm |-> 0, ncalls |-> 0,
     last |-> [cmd |-> "none", list |-> "none", out |-> "ok", val |-> ""]]

CannedIdle == canned = NewMock(<<>>, [k \in {"MEAS?", "TRIG:STAT?"} |-> Absent])

notTransport == <<threadVars, decodeVars, catalogVars, detectVars, registryVars, acquireVars, setterVars, facadeOpVars, twinVars, cancelVars, cannedVars>>

IOOps == {"write", "read", "query", "read_raw"}

NoCall ==
    [op |-> "none", cmd |-> "none", pre |-> FALSE, out |-> "ok", val |-> <<>>,
     sent |-> FALSE, consumed |-> FALSE, id |-> 0, pop |-> "none", pout |-> "ok"]

\* The record of a call on the socket: r is what the operation returned; sent
\* and consumed say whether the call put a command on the wire and whether it
\* took anything from the socket.
SocketCall(op, cmd, r) ==
    [op |-> op, cmd |-> cmd, pre |-> sc.connected, out |-> r.out, val |-> r.val,
     sent |-> op \in IOOps /\ r.c.nsent # sc.nsent,
     consumed |-> op \in IOOps /\ r.c.nrecv # sc.nrecv,
     id |-> IF op \in {"write", "query"} THEN sc.nsent + 1 ELSE 0,
     pop |-> last.op, pout |-> last.out]

\* The record of a call on the double: sent and consumed say whether the call
\* was logged.
MockCall(op, cmd, r) ==
    [op |-> op, cmd |-> cmd, pre |-> mc.connected, out |-> r.out, val |-> r.val,
     sent |-> r.c.writes # mc.writes, consumed |-> r.c.queries # mc.queries, id |-> 0,
     pop |-> last.op, pout |-> last.out]

SocketDo(op, cmd, r) ==
    /\ impl = "socket"
    /\ sc' = r.c
    /\ last' = SocketCall(op, cmd, r)
    /\ UNCHANGED <<impl, mc, notTransport, setterVars, facadeOpVars, twinVars, cancelVars, cannedVars>>

MockDo(op, cmd, r) ==
    /\ impl = "mock"
    /\ mc' = r.c
    /\ last' = MockCall(op, cmd, r)
    /\ UNCHANGED <<impl, sc, notTransport, setterVars, facadeOpVars, twinVars, cancelVars, cannedVars>>

Connect == \E o \in ConnectOutcomes : SocketDo("connect", "none", SocketConnect(sc, o))

Disconnect == SocketDo("disconnect", "none", SocketDisconnect(sc))

Write ==
    /\ sc.nsent < MaxSent
    /\ \E cmd \in Commands, f \in WriteFaults, nul \in BOOLEAN :
          SocketDo("write", cmd, SocketWrite(sc, cmd, f, nul))

Read ==
    \E f \in ReadFaults, k \in 0..Len(sc.inflight), n \in 0..(Len(sc.rxbuf) + Len(sc.inflight)) :
       /\ ReadChoiceOK(sc, k, n)
       /\ SocketDo("read", "none", SocketRead(sc, f, k, n))

Query ==
    /\ sc.nsent < MaxSent
    /\ \E cmd \in Commands, wf \in WriteFaults, nul \in BOOLEAN :
          LET w == SocketWrite(sc, cmd, wf, nul)
          IN  IF w.out # "ok"
              THEN SocketDo("query", cmd, w)
              ELSE \E rf \in ReadFaults, k \in 0..Len(w.c.inflight),
                      n \in 0..(Len(w.c.rxbuf) + Len(w.c.inflight)) :
                      /\ ReadChoiceOK(w.c, k, n)
                      /\ SocketDo("query", cmd, SocketQuery(sc, cmd, wf, nul, rf, k, n))

ReadRaw ==
    \E size \in 0..2, f \in ReadFaults, k \in 0..Len(sc.inflight) :
       SocketDo("read_raw", "none", SocketReadRaw(sc, size, f, k))

\* The instrument delivers the next item of an answer.
Deliver ==
    /\ impl = "socket"
    /\ sc.inflight # <<>>
    /\ sc.peer = "up"
    /\ sc' = [sc EXCEPT !.rxbuf = @ \o <<Head(sc.inflight)>>, !.inflight = Tail(@)]
    /\ UNCHANGED <<impl, mc, last, notTransport, setterVars, facadeOpVars, twinVars, cancelVars, cannedVars>>

\* The instrument closes the connection; what it had not delivered is lost.
PeerClose ==
    /\ impl = "socket"
    /\ sc.sock = "open"
    /\ sc.peer = "up"
    /\ sc' = [sc EXCEPT !.peer = "closed", !.inflight = <<>>]
    /\ UNCHANGED <<impl, mc, last, notTransport, setterVars, facadeOpVars, twinVars, cancelVars, cannedVars>>

MConnect == MockDo("connect", "none", MockConnect(mc))

MDisconnect == MockDo("disconnect", "none", MockDisconnect(mc))

MWrite ==
    /\ mc.writes < MaxMockLog
    /\ \E cmd \in Commands : MockDo("write", cmd, MockWrite(mc, cmd))

MRead == MockDo("read", "none", MockRead(mc))

MQuery ==
    /\ mc.queries < MaxMockLog
    /\ \E cmd \in Commands : MockDo("query", cmd, MockQuery(mc, cmd))

MReadRaw == \E size \in 0..2 : MockDo("read_raw", "none", MockReadRaw(mc, size))

TransportInit ==
    /\ impl \in {"socket", "mock"}
    /\ sc = SocketInit
    /\ mc = MockInit
    /\ last = NoCall
    /\ ThreadsIdle
    /\ DecodeIdle
    /\ CatalogIdle
    /\ DetectIdle
    /\ RegistryIdle
    /\ AcquireIdle
    /\ SettersIdle
    /\ FacadeOpsIdle
    /\ TwinIdle
    /\ CancelIdle
    /\ CannedIdle

TransportNext ==
    \/ Connect \/ Disconnect \/ Write \/ Read \/ Query \/ ReadRaw
    \/ Deliver \/ PeerClose
    \/ MConnect \/ MDisconnect \/ MWrite \/ MRead \/ MQuery \/ MReadRaw

notSetters == <<transportVars, threadVars, decodeVars, catalogVars, detectVars, registryVars, acquireVars, facadeOpVars, twinVars, cancelVars, cannedVars>>

notFacadeOps == <<transportVars, threadVars, decodeVars, catalogVars, detectVars, registryVars, acquireVars, setterVars, twinVars, cancelVars, cannedVars>>

notTwin == <<threadVars, decodeVars, catalogVars, detectVars, registryVars, acquireVars, setterVars, facadeOpVars, cancelVars, cannedVars>>

notCancel == <<transportVars, threadVars, decodeVars, catalogVars, detectVars, registryVars, acquireVars, setterVars, facadeOpVars, twinVars, cannedVars>>

notCanned == <<transportVars, threadVars, decodeVars, catalogVars, detectVars, registryVars, acquireVars, setterVars, facadeOpVars, twinVars, cancelVars>>

vars == <<transportVars, threadVars, decodeVars, catalogVars, detectVars, registryVars, acquireVars, setterVars, facadeOpVars, twinVars, cancelVars, cannedVars>>

SpecTransport == TransportInit /\ [][TransportNext]_vars

\* C1: after any sequence of connect, disconnect, write, read, query and
\* read_raw calls, a write, read, query or read_raw issued while the connected
\* flag is false fails with ConnectionError, sends nothing and consumes nothing
\* (socket transport and double alike).
C1_NoIOWhileDisconnected ==
    (last.op \in IOOps /\ ~last.pre)
        => (last.out = "ConnectionError" /\ ~last.sent /\ ~last.consumed)

\* C1 witness: a query attempted on a socket that a socket error left marked
\* disconnected (the socket object still exists) was refused.
C1_Witness ==
    /\ impl = "socket" /\ sc.sock = "broken"
    /\ last.op = "query" /\ ~last.pre /\ last.out = "ConnectionError"

\* C2: the string a query returns is the instrument's response to that exact
\* command and never the response to an earlier command, stated for the case
\* the claim names: the query follows a query that ended in a read timeout.
C2_QueryAnswersItsCommand ==
    (impl = "socket" /\ last.op = "query" /\ last.out = "ok"
     /\ last.pop = "query" /\ last.pout = "TimeoutError")
        => \A i \in DOMAIN last.val : last.val[i].id = last.id

(***************************************************************************)
(* A polling worker (LiveViewWorker, DAQWorker) and another call site on   *)
(* the same connection.  The worker's run loop issues request/response     *)
(* pairs through the facade while `running` is set; the GUI thread issues  *)
(* its own.  A pair is query(): write, settle delay, read; the other       *)
(* thread can run between the two (the delay and the socket calls release  *)
(* the interpreter).  Neither worker, facade nor transport takes a lock.   *)
(***************************************************************************)
\* Where a thread goes when its request is over: the worker sleeps for its
\* update interval, the caller is free for its next call.
AfterRequest(t) == IF t = "worker" THEN "sleep" ELSE "idle"

\* run(): self.running = True
WorkerStart ==
    /\ th["worker"].pc = "unstarted"
    /\ running' = TRUE
    /\ th' = [th EXCEPT !["worker"].pc = "loop"]
    /\ UNCHANGED <<transportVars, decodeVars, catalogVars, detectVars, registryVars, acquireVars, setterVars, facadeOpVars, twinVars, cancelVars, cannedVars>>

\* `while self.running:`, then _acquire_waveforms() / _acquire_readings(),
\* which return at once when the facade is not connected
WorkerLoop ==
    /\ th["worker"].pc = "loop"
    /\ th' = [th EXCEPT !["worker"].pc =
                 IF ~running THEN "stopped"
                 ELSE IF ~sc.connected THEN "sleep" ELSE "idle"]
    /\ UNCHANGED <<running, transportVars, decodeVars, catalogVars, detectVars, registryVars, acquireVars, setterVars, facadeOpVars, twinVars, cancelVars, cannedVars>>

\* self.msleep(self.update_interval)
WorkerWake ==
    /\ th["worker"].pc = "sleep"
    /\ th' = [th EXCEPT !["worker"].pc = "loop"]
    /\ UNCHANGED <<running, transportVars, decodeVars, catalogVars, detectVars, registryVars, acquireVars, setterVars, facadeOpVars, twinVars, cancelVars, cannedVars>>

\* stop(): self.running = False
Stop ==
    /\ running
    /\ running' = FALSE
    /\ UNCHANGED <<th, transportVars, decodeVars, catalogVars, detectVars, registryVars, acquireVars, setterVars, facadeOpVars, twinVars, cancelVars, cannedVars>>

\* The write of a thread's request.
ThreadWrite(t) ==
    /\ th[t].pc = "idle"
    /\ sc.nsent < MaxSent
    /\ \E f \in WriteFaults, nul \in BOOLEAN :
          LET r == SocketWrite(sc, "qry", f, nul)
          IN  /\ sc' = r.c
              /\ th' = [th EXCEPT ![t] =
                          IF r.out = "ok"
                          THEN [pc |-> "wrote", id |-> sc.nsent + 1, got |-> <<>>]
                          ELSE [pc |-> AfterRequest(t), id |-> 0, got |-> <<>>]]
    /\ UNCHANGED <<impl, mc, last, running, decodeVars, catalogVars, detectVars, registryVars, acquireVars, setterVars, facadeOpVars, twinVars, cancelVars, cannedVars>>

\* The read of a thread's request.
ThreadRead(t) ==
    /\ th[t].pc = "wrote"
    /\ \E f \in ReadFaults, k \in 0..Len(sc.inflight),
          n \in 0..(Len(sc.rxbuf) + Len(sc.inflight)) :
          /\ ReadChoiceOK(sc, k, n)
          /\ LET r == SocketRead(sc, f, k, n)
             IN  /\ sc' = r.c
                 /\ th' = [th EXCEPT ![t].pc = AfterRequest(t), ![t].got = r.val]
    /\ UNCHANGED <<impl, mc, last, running, decodeVars, catalogVars, detectVars, registryVars, acquireVars, setterVars, facadeOpVars, twinVars, cancelVars, cannedVars>>

WorkerWrite == ThreadWrite("worker")
WorkerRead == ThreadRead("worker")
CallerWrite == ThreadWrite("caller")
CallerRead == ThreadRead("caller")

\* The facade is connected before a worker is started.
ThreadsSpecInit ==
    /\ impl = "socket"
    /\ sc = SocketConnect(SocketInit, "ok").c
    /\ mc = MockInit
    /\ last = NoCall
    /\ ThreadsIdle
    /\ DecodeIdle
    /\ CatalogIdle
    /\ DetectIdle
    /\ RegistryIdle
    /\ AcquireIdle
    /\ SettersIdle
    /\ FacadeOpsIdle
    /\ TwinIdle
    /\ CancelIdle
    /\ CannedIdle

ThreadsNext ==
    \/ WorkerStart \/ WorkerLoop \/ WorkerWake \/ Stop
    \/ WorkerWrite \/ WorkerRead \/ CallerWrite \/ CallerRead
    \/ Deliver

SpecThreads == ThreadsSpecInit /\ [][ThreadsNext]_vars

\* C3: when a polling worker and another call site use the same connection,
\* each request/response pair is exclusive: between the write of a request and
\* the read of its response no other write or read on the connection takes
\* place, i.e. never are two requests written and not yet read.
C3_ExclusiveRequestResponse ==
    ~(th["worker"].pc = "wrote" /\ th["caller"].pc = "wrote")

(***************************************************************************)
(* Waveform._parse_waveform: the IEEE-488.2 definite-length block          *)
(* `#<n><length><payload>`.  Bytes are numbers 0..255; a result is         *)
(* [kind, msg, codes] with kind "ok" or the exception raised.              *)
(***************************************************************************)
\* longest input handed to the decoder
MaxRawLen == 5

\* '#', '0', '1', '2', 'X' and a byte above 127
RawBytes == {35, 48, 49, 50, 88, 200}

RawInputs == UNION {[1..n -> RawBytes] : n \in 0..MaxRawLen}

Formats == {"BYTE", "WORD"}

Raised(kind, msg) == [kind |-> kind, msg |-> msg, codes |-> <<>>]

Decoded(codes) == [kind |-> "ok", msg |-> "", codes |-> codes]

\* bytes.find: the 0-based index of the first b, or -1
Find(s, b) ==
    IF \E i \in 1..Len(s) : s[i] = b
    THEN (CHOOSE i \in 1..Len(s) : s[i] = b /\ \A j \in 1..(i - 1) : s[j] # b) - 1
    ELSE -1

\* s[a:b] of Python, for a >= 0
PySlice(s, a, b) ==
    LET stop == IF b < 0 THEN (IF b + Len(s) < 0 THEN 0 ELSE b + Len(s))
                ELSE (IF b > Len(s) THEN Len(s) ELSE b)
    IN  IF a < stop THEN SubSeq(s, a + 1, stop) ELSE <<>>

IsDigit(b) == b \in 48..57

IsSpace(b) == b \in {9, 10, 11, 12, 13, 32}

RECURSIVE LStripBytes(_)
LStripBytes(s) == IF s # <<>> /\ IsSpace(Head(s)) THEN LStripBytes(Tail(s)) ELSE s

RECURSIVE RStripBytes(_)
RStripBytes(s) ==
    IF s # <<>> /\ IsSpace(s[Len(s)]) THEN RStripBytes(SubSeq(s, 1, Len(s) - 1)) ELSE s

\* the decimal value of digits, underscores skipped
RECURSIVE DecValue(_, _)
DecValue(s, acc) ==
    IF s = <<>> THEN acc
    ELSE IF Head(s) = 95 THEN DecValue(Tail(s), acc)
    ELSE DecValue(Tail(s), 10 * acc + (Head(s) - 48))

NotANumber == [ok |-> FALSE, v |-> 0]

\* int(chr(byte)): a single character is a number only when it is a digit
PyIntChar(b) == IF IsDigit(b) THEN [ok |-> TRUE, v |-> b - 48] ELSE NotANumber

\* int(bytes): optional surrounding whitespace, optional sign, decimal digits
\* with single underscores between them; anything else is a ValueError
PyIntBytes(s) ==
    LET t      == RStripBytes(LStripBytes(s))
        signed == t # <<>> /\ Head(t) \in {43, 45}
        digs   == IF signed THEN Tail(t) ELSE t
        wellformed ==
            /\ digs # <<>>
            /\ IsDigit(Head(digs)) /\ IsDigit(digs[Len(digs)])
            /\ \A i \in 1..Len(digs) : IsDigit(digs[i]) \/ digs[i] = 95
            /\ \A i \in 1..(Len(digs) - 1) : ~(digs[i] = 95 /\ digs[i + 1] = 95)
    IN  IF ~wellformed THEN NotANumber
        ELSE [ok |-> TRUE,
              v  |-> IF signed /\ Head(t) = 45 THEN 0 - DecValue(digs, 0)
                     ELSE DecValue(digs, 0)]

\* np.frombuffer(..., dtype=np.int8)
Int8(b) == IF b >= 128 THEN b - 256 ELSE b

\* np.frombuffer(..., dtype=np.int16), little-endian
Int16(lo, hi) == IF lo + 256 * hi >= 32768 THEN lo + 256 * hi - 65536 ELSE lo + 256 * hi

FromBufferInt8(bin) == [i \in 1..Len(bin) |-> Int8(bin[i])]

FromBufferInt16(bin) == [i \in 1..(Len(bin) \div 2) |-> Int16(bin[2 * i - 1], bin[2 * i])]

parse_waveform(data, format) ==
    LET header_end == Find(data, 35)
    IN  IF header_end = -1 THEN Raised("CommandError", "Invalid waveform format: no # found")
        ELSE IF header_end + 1 >= Len(data) THEN Raised("IndexError", "index out of range")
        ELSE LET n_digits == PyIntChar(data[header_end + 2])
             IN  IF ~n_digits.ok THEN Raised("ValueError", "invalid literal for int()")
                 ELSE LET data_length ==
                              PyIntBytes(PySlice(data, header_end + 2, header_end + 2 + n_digits.v))
                          data_start == header_end + 2 + n_digits.v
                      IN  IF ~data_length.ok
                          THEN Raised("ValueError", "invalid literal for int()")
                          ELSE LET binary_data ==
                                       PySlice(data, data_start, data_start + data_length.v)
                               IN  IF format = "BYTE" THEN Decoded(FromBufferInt8(binary_data))
                                   ELSE IF format = "WORD"
                                   THEN (IF Len(binary_data) % 2 # 0
                                         THEN Raised("ValueError",
                                                     "buffer size must be a multiple of element size")
                                         ELSE Decoded(FromBufferInt16(binary_data)))
                                   ELSE Raised("InvalidParameterError", "Invalid format")

Parse ==
    /\ parsed = Pending
    /\ parsed' = parse_waveform(raw, fmt)
    /\ UNCHANGED <<raw, fmt, transportVars, threadVars, catalogVars, detectVars, registryVars, acquireVars, setterVars, facadeOpVars, twinVars, cancelVars, cannedVars>>

DecodeInit ==
    /\ raw \in RawInputs
    /\ fmt \in Formats
    /\ parsed = Pending
    /\ impl = "socket" /\ sc = SocketInit /\ mc = MockInit /\ last = NoCall
    /\ ThreadsIdle
    /\ CatalogIdle
    /\ DetectIdle
    /\ RegistryIdle
    /\ AcquireIdle
    /\ SettersIdle
    /\ FacadeOpsIdle
    /\ TwinIdle
    /\ CancelIdle
    /\ CannedIdle

DecodeNext == Parse

SpecDecode == DecodeInit /\ [][DecodeNext]_vars

(***************************************************************************)
(* The block header as section 4.4 of the specification and the tests      *)
(* describe it, and the error each defect is to be reported with.          *)
(***************************************************************************)
MarkerAt(data) == Find(data, 35) + 1

HeaderDefect(data) ==
    LET m == MarkerAt(data)
    IN  IF m = 0 THEN "Invalid waveform format: no # found"
        ELSE IF m = Len(data) THEN "truncated length digit"
        ELSE IF ~IsDigit(data[m + 1]) THEN "non-numeric length digit"
        ELSE IF data[m + 1] = 48 THEN "length digit must be positive"
        ELSE IF Len(data) < m + 1 + (data[m + 1] - 48) THEN "truncated length field"
        ELSE IF \E i \in (m + 2)..(m + 1 + (data[m + 1] - 48)) : ~IsDigit(data[i])
             THEN "non-numeric length field"
        ELSE "none"

\* For a header without defect: the declared payload length and the bytes that
\* follow the length field.
DeclaredLength(data) ==
    LET m == MarkerAt(data)
    IN  DecValue(SubSeq(data, m + 2, m + 1 + (data[m + 1] - 48)), 0)

Available(data) ==
    LET m == MarkerAt(data)
    IN  SubSeq(data, m + 2 + (data[m + 1] - 48), Len(data))

\* C4: every malformed block header is reported as a CommandError of its own
\* name, never as a generic exception: no '#' (also empty input), '#' followed
\* by no byte, by '0' or by a non-digit, a length field shorter than n bytes or
\* non-numeric.
C4_MalformedHeaderIsNamedCommandError ==
    (parsed # Pending /\ HeaderDefect(raw) # "none")
        => (parsed.kind = "CommandError" /\ parsed.msg = HeaderDefect(raw))

\* C5: a header that declares more payload than follows the length field is
\* reported as CommandError; no sample array shorter than declared is returned.
C5_ShortPayloadIsCommandError ==
    (parsed # Pending /\ HeaderDefect(raw) = "none"
     /\ DeclaredLength(raw) > Len(Available(raw)))
        => parsed.kind = "CommandError"

\* C6: with the declared payload present, WORD decoding of an odd length is a
\* CommandError, an even length gives length/2 signed little-endian 16-bit
\* codes, and BYTE decoding gives `length` signed 8-bit codes, all taken from
\* the bytes right after the length field.
C6_PayloadInterpretation ==
    (parsed # Pending /\ HeaderDefect(raw) = "none"
     /\ DeclaredLength(raw) <= Len(Available(raw)))
        => LET payload == SubSeq(Available(raw), 1, DeclaredLength(raw))
           IN  IF fmt = "WORD" /\ Len(payload) % 2 # 0
               THEN parsed.kind = "CommandError"
               ELSE /\ parsed.kind = "ok"
                    /\ parsed.codes =
                          IF fmt = "WORD"
                          THEN [i \in 1..(Len(payload) \div 2) |->
                                  LET w == payload[2 * i - 1] + 256 * payload[2 * i]
                                  IN  IF w >= 32768 THEN w - 65536 ELSE w]
                          ELSE [i \in 1..Len(payload) |->
                                  IF payload[i] >= 128 THEN payload[i] - 256 ELSE payload[i]]

(***************************************************************************)
(* The command catalogs AWGSCPICommandSet and DAQSCPICommandSet.  A        *)
(* template is a sequence of literal pieces and named placeholders; a      *)
(* rendered command is a sequence of pieces without placeholders.          *)
(***************************************************************************)
Lit(s) == [ph |-> FALSE, s |-> s]

Ph(k) == [ph |-> TRUE, s |-> k]

\* AWGSCPICommandSet.GENERIC_COMMANDS
AWG_GENERIC_COMMANDS ==
    [ identify |-> <<Lit("*IDN?")>>,
      reset |-> <<Lit("*RST")>>,
      clear_status |-> <<Lit("*CLS")>>,
      get_error |-> <<Lit("SYST:ERR?")>>,
      set_function |-> <<Lit("SOUR"), Ph("ch"), Lit(":FUNC "), Ph("function")>>,
      get_function |-> <<Lit("SOUR"), Ph("ch"), Lit(":FUNC?")>>,
      set_frequency |-> <<Lit("SOUR"), Ph("ch"), Lit(":FREQ "), Ph("frequency")>>,
      get_frequency |-> <<Lit("SOUR"), Ph("ch"), Lit(":FREQ?")>>,
      set_amplitude |-> <<Lit("SOUR"), Ph("ch"), Lit(":VOLT "), Ph("amplitude")>>,
      get_amplitude |-> <<Lit("SOUR"), Ph("ch"), Lit(":VOLT?")>>,
      set_offset |-> <<Lit("SOUR"), Ph("ch"), Lit(":VOLT:OFFS "), Ph("offset")>>,
      get_offset |-> <<Lit("SOUR"), Ph("ch"), Lit(":VOLT:OFFS?")>>,
      set_phase |-> <<Lit("SOUR"), Ph("ch"), Lit(":PHAS "), Ph("phase")>>,
      get_phase |-> <<Lit("SOUR"), Ph("ch"), Lit(":PHAS?")>>,
      set_output |-> <<Lit("OUTP"), Ph("ch"), Lit(" "), Ph("state")>>,
      get_output |-> <<Lit("OUTP"), Ph("ch"), Lit("?")>>,
      set_output_load |-> <<Lit("OUTP"), Ph("ch"), Lit(":LOAD "), Ph("load")>>,
      get_output_load |-> <<Lit("OUTP"), Ph("ch"), Lit(":LOAD?")>>,
      set_output_polarity |-> <<Lit("OUTP"), Ph("ch"), Lit(":POL "), Ph("polarity")>>,
      get_output_polarity |-> <<Lit("OUTP"), Ph("ch"), Lit(":POL?")>>,
      set_pulse_width |-> <<Lit("SOUR"), Ph("ch"), Lit(":FUNC:PULS:WIDT "), Ph("width")>>,
      get_pulse_width |-> <<Lit("SOUR"), Ph("ch"), Lit(":FUNC:PULS:WIDT?")>>,
      set_pulse_period |-> <<Lit("SOUR"), Ph("ch"), Lit(":FUNC:PULS:PER "), Ph("period")>>,
      get_pulse_period |-> <<Lit("SOUR"), Ph("ch"), Lit(":FUNC:PULS:PER?")>>,
      set_pulse_duty |-> <<Lit("SOUR"), Ph("ch"), Lit(":FUNC:PULS:DCYC "), Ph("duty")>>,
      get_pulse_duty |-> <<Lit("SOUR"), Ph("ch"), Lit(":FUNC:PULS:DCYC?")>>,
      set_ramp_symmetry |-> <<Lit("SOUR"), Ph("ch"), Lit(":FUNC:RAMP:SYMM "), Ph("symmetry")>>,
      get_ramp_symmetry |-> <<Lit("SOUR"), Ph("ch"), Lit(":FUNC:RAMP:SYMM?")>> ]

\* AWGSCPICommandSet.SIGLENT_SDG_OVERRIDES
AWG_SIGLENT_SDG_OVERRIDES ==
    [ set_function |-> <<Lit("C"), Ph("ch"), Lit(":BSWV WVTP,"), Ph("function")>>,
      get_function |-> <<Lit("C"), Ph("ch"), Lit(":BSWV? WVTP")>>,
      set_frequency |-> <<Lit("C"), Ph("ch"), Lit(":BSWV FRQ,"), Ph("frequency")>>,
      get_frequency |-> <<Lit("C"), Ph("ch"), Lit(":BSWV? FRQ")>>,
      set_amplitude |-> <<Lit("C"), Ph("ch"), Lit(":BSWV AMP,"), Ph("amplitude")>>,
      get_amplitude |-> <<Lit("C"), Ph("ch"), Lit(":BSWV? AMP")>>,
      set_offset |-> <<Lit("C"), Ph("ch"), Lit(":BSWV OFST,"), Ph("offset")>>,
      get_offset |-> <<Lit("C"), Ph("ch"), Lit(":BSWV? OFST")>>,
      set_phase |-> <<Lit("C"), Ph("ch"), Lit(":BSWV PHSE,"), Ph("phase")>>,
      get_phase |-> <<Lit("C"), Ph("ch"), Lit(":BSWV? PHSE")>>,
      set_pulse_duty |-> <<Lit("C"), Ph("ch"), Lit(":BSWV DUTY,"), Ph("duty")>>,
      get_pulse_duty |-> <<Lit("C"), Ph("ch"), Lit(":BSWV? DUTY")>>,
      set_ramp_symmetry |-> <<Lit("C"), Ph("ch"), Lit(":BSWV SYM,"), Ph("symmetry")>>,
      get_ramp_symmetry |-> <<Lit("C"), Ph("ch"), Lit(":BSWV? SYM")>>,
      set_output |-> <<Lit("C"), Ph("ch"), Lit(":OUTP "), Ph("state")>>,
      get_output |-> <<Lit("C"), Ph("ch"), Lit(":OUTP?")>>,
      set_output_load |-> <<Lit("C"), Ph("ch"), Lit(":OUTP LOAD,"), Ph("load")>>,
      get_output_load |-> <<Lit("C"), Ph("ch"), Lit(":OUTP? LOAD")>>,
      set_output_polarity |-> <<Lit("C"), Ph("ch"), Lit(":OUTP PLRT,"), Ph("polarity")>>,
      get_output_polarity |-> <<Lit("C"), Ph("ch"), Lit(":OUTP? PLRT")>>,
      set_arb_waveform |-> <<Lit("C"), Ph("ch"), Lit(":ARWV NAME,"), Ph("name")>>,
      get_arb_waveform |-> <<Lit("C"), Ph("ch"), Lit(":ARWV? NAME")>>,
      set_modulation |-> <<Lit("C"), Ph("ch"), Lit(":MDWV STATE,"), Ph("state")>>,
      get_modulation |-> <<Lit("C"), Ph("ch"), Lit(":MDWV? STATE")>>,
      set_burst_state |-> <<Lit("C"), Ph("ch"), Lit(":BTWV STATE,"), Ph("state")>>,
      get_burst_state |-> <<Lit("C"), Ph("ch"), Lit(":BTWV? STATE")>>,
      set_sweep_state |-> <<Lit("C"), Ph("ch"), Lit(":SWWV STATE,"), Ph("state")>>,
      get_sweep_state |-> <<Lit("C"), Ph("ch"), Lit(":SWWV? STATE")>> ]

\* DAQSCPICommandSet.GENERIC_COMMANDS
DAQ_GENERIC_COMMANDS ==
    [ identify |-> <<Lit("*IDN?")>>,
      reset |-> <<Lit("*RST")>>,
      clear_status |-> <<Lit("*CLS")>>,
      get_error |-> <<Lit("SYST:ERR?")>>,
      operation_complete |-> <<Lit("*OPC?")>>,
      configure_voltage_dc |-> <<Lit("CONF:VOLT:DC "), Ph("range"), Lit(","), Ph("resolution"), Lit(","), Ph("channels")>>,
      configure_voltage_ac |-> <<Lit("CONF:VOLT:AC "), Ph("range"), Lit(","), Ph("resolution"), Lit(","), Ph("channels")>>,
      configure_current_dc |-> <<Lit("CONF:CURR:DC "), Ph("range"), Lit(","), Ph("resolution"), Lit(","), Ph("channels")>>,
      configure_current_ac |-> <<Lit("CONF:CURR:AC "), Ph("range"), Lit(","), Ph("resolution"), Lit(","), Ph("channels")>>,
      configure_resistance_2w |-> <<Lit("CONF:RES "), Ph("range"), Lit(","), Ph("resolution"), Lit(","), Ph("channels")>>,
      configure_resistance_4w |-> <<Lit("CONF:FRES "), Ph("range"), Lit(","), Ph("resolution"), Lit(","), Ph("channels")>>,
      configure_frequency |-> <<Lit("CONF:FREQ "), Ph("range"), Lit(","), Ph("resolution"), Lit(","), Ph("channels")>>,
      configure_period |-> <<Lit("CONF:PER "), Ph("range"), Lit(","), Ph("resolution"), Lit(","), Ph("channels")>>,
      configure_temperature |-> <<Lit("CONF:TEMP "), Ph("sensor_type"), Lit(","), Ph("channels")>>,
      set_scan_list |-> <<Lit("ROUT:SCAN "), Ph("channels")>>,
      get_scan_list |-> <<Lit("ROUT:SCAN?")>>,
      clear_scan_list |-> <<Lit("ROUT:SCAN (@)")>>,
      set_channel_delay |-> <<Lit("ROUT:CHAN:DEL "), Ph("delay"), Lit(","), Ph("channels")>>,
      get_channel_delay |-> <<Lit("ROUT:CHAN:DEL? "), Ph("channels")>>,
      set_trigger_source |-> <<Lit("TRIG:SOUR "), Ph("source")>>,
      get_trigger_source |-> <<Lit("TRIG:SOUR?")>>,
      set_trigger_count |-> <<Lit("TRIG:COUN "), Ph("count")>>,
      get_trigger_count |-> <<Lit("TRIG:COUN?")>>,
      set_trigger_delay |-> <<Lit("TRIG:DEL "), Ph("delay")>>,
      get_trigger_delay |-> <<Lit("TRIG:DEL?")>>,
      set_trigger_timer |-> <<Lit("TRIG:TIM "), Ph("interval")>>,
      get_trigger_timer |-> <<Lit("TRIG:TIM?")>>,
      initiate |-> <<Lit("INIT")>>,
      abort |-> <<Lit("ABOR")>>,
      trigger |-> <<Lit("*TRG")>>,
      read |-> <<Lit("READ?")>>,
      fetch |-> <<Lit("FETC?")>>,
      read_remove |-> <<Lit("R? "), Ph("max_readings")>>,
      get_data_points |-> <<Lit("DATA:POIN?")>>,
      clear_data |-> <<Lit("DATA:DEL NVMEM")>>,
      measure_voltage_dc |-> <<Lit("MEAS:VOLT:DC? "), Ph("range"), Lit(","), Ph("resolution"), Lit(","), Ph("channels")>>,
      measure_voltage_ac |-> <<Lit("MEAS:VOLT:AC? "), Ph("range"), Lit(","), Ph("resolution"), Lit(","), Ph("channels")>>,
      measure_current_dc |-> <<Lit("MEAS:CURR:DC? "), Ph("range"), Lit(","), Ph("resolution"), Lit(","), Ph("channels")>>,
      measure_current_ac |-> <<Lit("MEAS:CURR:AC? "), Ph("range"), Lit(","), Ph("resolution"), Lit(","), Ph("channels")>>,
      measure_resistance_2w |-> <<Lit("MEAS:RES? "), Ph("range"), Lit(","), Ph("resolution"), Lit(","), Ph("channels")>>,
      measure_resistance_4w |-> <<Lit("MEAS:FRES? "), Ph("range"), Lit(","), Ph("resolution"), Lit(","), Ph("channels")>>,
      measure_frequency |-> <<Lit("MEAS:FREQ? "), Ph("range"), Lit(","), Ph("resolution"), Lit(","), Ph("channels")>>,
      measure_temperature |-> <<Lit("MEAS:TEMP? "), Ph("sensor_type"), Lit(","), Ph("channels")>>,
      get_scan_state |-> <<Lit("ROUT:SCAN:STAT?")>> ]

\* DAQSCPICommandSet.KEYSIGHT_DAQ_OVERRIDES
DAQ_KEYSIGHT_DAQ_OVERRIDES ==
    [ configure_voltage_dc |-> <<Lit("CONF:VOLT:DC "), Ph("range"), Lit(","), Ph("resolution"), Lit(","), Ph("channels")>>,
      configure_voltage_ac |-> <<Lit("CONF:VOLT:AC "), Ph("range"), Lit(","), Ph("resolution"), Lit(","), Ph("channels")>>,
      configure_current_dc |-> <<Lit("CONF:CURR:DC "), Ph("range"), Lit(","), Ph("resolution"), Lit(","), Ph("channels")>>,
      configure_current_ac |-> <<Lit("CONF:CURR:AC "), Ph("range"), Lit(","), Ph("resolution"), Lit(","), Ph("channels")>>,
      configure_resistance_2w |-> <<Lit("CONF:RES "), Ph("range"), Lit(","), Ph("resolution"), Lit(","), Ph("channels")>>,
      configure_resistance_4w |-> <<Lit("CONF:FRES "), Ph("range"), Lit(","), Ph("resolution"), Lit(","), Ph("channels")>>,
      configure_temperature_tc |-> <<Lit("CONF:TEMP TC,"), Ph("tc_type"), Lit(","), Ph("channels")>>,
      configure_temperature_rtd |-> <<Lit("CONF:TEMP RTD,"), Ph("rtd_type"), Lit(","), Ph("channels")>>,
      configure_temperature_therm |-> <<Lit("CONF:TEMP THER,"), Ph("therm_type"), Lit(","), Ph("channels")>>,
      set_sample_count |-> <<Lit("SAMP:COUN "), Ph("count")>>,
      get_sample_count |-> <<Lit("SAMP:COUN?")>>,
      set_trigger_source_immediate |-> <<Lit("TRIG:SOUR IMM")>>,
      set_trigger_source_timer |-> <<Lit("TRIG:SOUR TIM")>>,
      set_trigger_source_bus |-> <<Lit("TRIG:SOUR BUS")>>,
      set_trigger_source_external |-> <<Lit("TRIG:SOUR EXT")>>,
      set_data_format |-> <<Lit("FORM:READ:ALAR "), Ph("state")>>,
      set_data_timestamp |-> <<Lit("FORM:READ:TIME "), Ph("state")>>,
      set_data_channel |-> <<Lit("FORM:READ:CHAN "), Ph("state")>>,
      set_data_unit |-> <<Lit("FORM:READ:UNIT "), Ph("state")>>,
      set_alarm_high |-> <<Lit("CALC:LIM:UPP "), Ph("limit"), Lit(","), Ph("channels")>>,
      get_alarm_high |-> <<Lit("CALC:LIM:UPP? "), Ph("channels")>>,
      set_alarm_low |-> <<Lit("CALC:LIM:LOW "), Ph("limit"), Lit(","), Ph("channels")>>,
      get_alarm_low |-> <<Lit("CALC:LIM:LOW? "), Ph("channels")>>,
      set_alarm_enable |-> <<Lit("CALC:LIM:STAT "), Ph("state"), Lit(","), Ph("channels")>>,
      get_alarm_enable |-> <<Lit("CALC:LIM:STAT? "), Ph("channels")>>,
      set_scaling_gain |-> <<Lit("CALC:SCAL:GAIN "), Ph("gain"), Lit(","), Ph("channels")>>,
      get_scaling_gain |-> <<Lit("CALC:SCAL:GAIN? "), Ph("channels")>>,
      set_scaling_offset |-> <<Lit("CALC:SCAL:OFFS "), Ph("offset"), Lit(","), Ph("channels")>>,
      get_scaling_offset |-> <<Lit("CALC:SCAL:OFFS? "), Ph("channels")>>,
      set_scaling_enable |-> <<Lit("CALC:SCAL:STAT "), Ph("state"), Lit(","), Ph("channels")>>,
      get_scaling_enable |-> <<Lit("CALC:SCAL:STAT? "), Ph("channels")>>,
      configure_digitize |-> <<Lit("ACQ:VOLT:DC "), Ph("range"), Lit(","), Ph("channels")>>,
      set_digitize_rate |-> <<Lit("ACQ:SRAT "), Ph("rate")>>,
      get_digitize_rate |-> <<Lit("ACQ:SRAT?")>>,
      set_monitor_channel |-> <<Lit("ROUT:MON "), Ph("channel")>>,
      get_monitor_channel |-> <<Lit("ROUT:MON?")>>,
      set_monitor_enable |-> <<Lit("ROUT:MON:STAT "), Ph("state")>>,
      get_monitor_enable |-> <<Lit("ROUT:MON:STAT?")>>,
      read_monitor |-> <<Lit("ROUT:MON:DATA?")>>,
      get_module_info |-> <<Lit("SYST:CTYP? "), Ph("slot")>> ]

Rendered(out) == [kind |-> "ok", out |-> out, op |-> "", key |-> ""]

Failure(kind, op, key) == [kind |-> kind, out |-> <<>>, op |-> op, key |-> key]

\* A formatter that leaves a placeholder without value in place.
RECURSIVE StrFormat_Partial(_, _)
StrFormat_Partial(template, kw) ==
    IF template = <<>> THEN Rendered(<<>>)
    ELSE LET rest == StrFormat_Partial(Tail(template), kw)
             h    == Head(template)
         IN  Rendered(<<IF h.ph /\ h.s \in DOMAIN kw THEN Lit(kw[h.s]) ELSE h>> \o rest.out)

\* template.format(**kwargs): pieces left to right; the first placeholder
\* without a keyword raises KeyError(name); keywords not used are ignored.
RECURSIVE StrFormat(_, _)
StrFormat(template, kw) ==
    IF template = <<>> THEN Rendered(<<>>)
    ELSE LET h == Head(template)
         IN  IF h.ph /\ h.s \notin DOMAIN kw THEN Failure("KeyError", "", h.s)
             ELSE LET rest == StrFormat(Tail(template), kw)
                  IN  IF rest.kind # "ok" THEN rest
                      ELSE Rendered(<<IF h.ph THEN Lit(kw[h.s]) ELSE h>> \o rest.out)

\* try: return template.format(**kwargs)
\* except KeyError as e: raise ValueError("Missing required parameter for command '<name>': <e>")
FormatCommand(template, command_name, kw) ==
    LET f == StrFormat(template, kw)
    IN  IF f.kind = "KeyError" THEN Failure("ValueError", command_name, f.key) ELSE f

\* A lookup that consults the generic table before the overrides.
AWG_get_command_GenericFirst(variant, command_name, kw) ==
    IF command_name \in DOMAIN AWG_GENERIC_COMMANDS
    THEN FormatCommand(AWG_GENERIC_COMMANDS[command_name], command_name, kw)
    ELSE IF variant = "siglent_sdg" /\ command_name \in DOMAIN AWG_SIGLENT_SDG_OVERRIDES
    THEN FormatCommand(AWG_SIGLENT_SDG_OVERRIDES[command_name], command_name, kw)
    ELSE Failure("KeyError", command_name, "")

AWG_get_command(variant, command_name, kw) ==
    IF variant = "siglent_sdg" /\ command_name \in DOMAIN AWG_SIGLENT_SDG_OVERRIDES
    THEN FormatCommand(AWG_SIGLENT_SDG_OVERRIDES[command_name], command_name, kw)
    ELSE IF command_name \in DOMAIN AWG_GENERIC_COMMANDS
    THEN FormatCommand(AWG_GENERIC_COMMANDS[command_name], command_name, kw)
    ELSE Failure("KeyError", command_name, "")

AWG_supports_command(variant, command_name) ==
    IF variant = "siglent_sdg" /\ command_name \in DOMAIN AWG_SIGLENT_SDG_OVERRIDES
    THEN TRUE
    ELSE command_name \in DOMAIN AWG_GENERIC_COMMANDS

\* A lookup that stops at the override table when the variant has one.
DAQ_get_command_NoFallback(variant, command_name, kw) ==
    IF variant = "keysight_daq"
    THEN (IF command_name \in DOMAIN DAQ_KEYSIGHT_DAQ_OVERRIDES
          THEN FormatCommand(DAQ_KEYSIGHT_DAQ_OVERRIDES[command_name], command_name, kw)
          ELSE Failure("KeyError", command_name, ""))
    ELSE IF command_name \in DOMAIN DAQ_GENERIC_COMMANDS
    THEN FormatCommand(DAQ_GENERIC_COMMANDS[command_name], command_name, kw)
    ELSE Failure("KeyError", command_name, "")

DAQ_get_command(variant, command_name, kw) ==
    IF variant = "keysight_daq" /\ command_name \in DOMAIN DAQ_KEYSIGHT_DAQ_OVERRIDES
    THEN FormatCommand(DAQ_KEYSIGHT_DAQ_OVERRIDES[command_name], command_name, kw)
    ELSE IF command_name \in DOMAIN DAQ_GENERIC_COMMANDS
    THEN FormatCommand(DAQ_GENERIC_COMMANDS[command_name], command_name, kw)
    ELSE Failure("KeyError", command_name, "")

\* A check that looks at the generic table only.
DAQ_supports_command_GenericOnly(variant, command_name) ==
    command_name \in DOMAIN DAQ_GENERIC_COMMANDS

DAQ_supports_command(variant, command_name) ==
    IF variant = "keysight_daq" /\ command_name \in DOMAIN DAQ_KEYSIGHT_DAQ_OVERRIDES
    THEN TRUE
    ELSE command_name \in DOMAIN DAQ_GENERIC_COMMANDS

\* list_commands: the names sorted() puts in order, as the set they make
DAQ_list_commands(variant) ==
    LET commands == DOMAIN DAQ_GENERIC_COMMANDS
    IN  IF variant = "keysight_daq" THEN commands \cup DOMAIN DAQ_KEYSIGHT_DAQ_OVERRIDES
        ELSE commands

(***************************************************************************)
(* Catalog behaviours: one lookup, for every family, variant tag, command  *)
(* name and set of keyword parameters.                                     *)
(***************************************************************************)
Families == {"awg", "daq"}

\* the tags the catalogs know, and one they do not
Variants == {"generic", "siglent_sdg", "keysight_daq", "acme"}

ParamValues == {"1", "AUTO"}

GenericTable(f) == IF f = "awg" THEN AWG_GENERIC_COMMANDS ELSE DAQ_GENERIC_COMMANDS

OverrideTable(f) == IF f = "awg" THEN AWG_SIGLENT_SDG_OVERRIDES ELSE DAQ_KEYSIGHT_DAQ_OVERRIDES

\* the variant tag for which the family's override table is consulted
OverrideVariant(f) == IF f = "awg" THEN "siglent_sdg" ELSE "keysight_daq"

Placeholders(template) == {template[i].s : i \in {j \in 1..Len(template) : template[j].ph}}

CommandNames(f) == DOMAIN GenericTable(f) \cup DOMAIN OverrideTable(f) \cup {"no_such_command"}

\* the keywords a caller may pass for a command: those its templates name, and
\* one that no template names
Keywords(f, op) ==
    (IF op \in DOMAIN GenericTable(f) THEN Placeholders(GenericTable(f)[op]) ELSE {})
    \cup (IF op \in DOMAIN OverrideTable(f) THEN Placeholders(OverrideTable(f)[op]) ELSE {})
    \cup {"extra"}

RequestsOf(f) ==
    UNION {{[family |-> f, variant |-> v, op |-> op, kw |-> kw] :
               kw \in UNION {[K -> ParamValues] : K \in SUBSET Keywords(f, op)}} :
           v \in Variants, op \in CommandNames(f)}

Requests == UNION {RequestsOf(f) : f \in Families}

ResolveAWG ==
    /\ req.family = "awg"
    /\ res = NoResult
    /\ res' = AWG_get_command(req.variant, req.op, req.kw)
    /\ UNCHANGED <<req, transportVars, threadVars, decodeVars, detectVars, registryVars, acquireVars, setterVars, facadeOpVars, twinVars, cancelVars, cannedVars>>

ResolveDAQ ==
    /\ req.family = "daq"
    /\ res = NoResult
    /\ res' = DAQ_get_command(req.variant, req.op, req.kw)
    /\ UNCHANGED <<req, transportVars, threadVars, decodeVars, detectVars, registryVars, acquireVars, setterVars, facadeOpVars, twinVars, cancelVars, cannedVars>>

CatalogInit ==
    /\ req \in Requests
    /\ res = NoResult
    /\ impl = "socket" /\ sc = SocketInit /\ mc = MockInit /\ last = NoCall
    /\ ThreadsIdle
    /\ DecodeIdle
    /\ DetectIdle
    /\ RegistryIdle
    /\ AcquireIdle
    /\ SettersIdle
    /\ FacadeOpsIdle
    /\ TwinIdle
    /\ CancelIdle
    /\ CannedIdle

CatalogNext == ResolveAWG \/ ResolveDAQ

SpecCatalog == CatalogInit /\ [][CatalogNext]_vars

\* The command a template stands for once every placeholder has its value, and
\* the failure that names the command and the first placeholder without one.
Missing(template, kw) == {i \in 1..Len(template) : template[i].ph /\ template[i].s \notin DOMAIN kw}

Expected(template, op, kw) ==
    IF Missing(template, kw) = {}
    THEN Rendered([i \in 1..Len(template) |->
                     IF template[i].ph THEN Lit(kw[template[i].s]) ELSE template[i]])
    ELSE Failure("ValueError", op,
                 template[CHOOSE i \in Missing(template, kw) :
                             \A j \in Missing(template, kw) : i <= j].s)

\* The lookup result for the same request under another variant tag.
ResolveUnder(v) ==
    IF req.family = "awg" THEN AWG_get_command(v, req.op, req.kw)
    ELSE DAQ_get_command(v, req.op, req.kw)

\* C7: get_command renders the active variant's override template when the
\* override table defines the operation, and otherwise the generic table's
\* template; an operation only the generic table defines resolves to the same
\* string under every variant tag, unrecognised ones included.
C7_OverrideElseGeneric ==
    res # NoResult =>
        LET g == GenericTable(req.family)
            o == OverrideTable(req.family)
        IN  /\ (req.variant = OverrideVariant(req.family) /\ req.op \in DOMAIN o)
                  => res = Expected(o[req.op], req.op, req.kw)
            /\ (~(req.variant = OverrideVariant(req.family) /\ req.op \in DOMAIN o)
                /\ req.op \in DOMAIN g)
                  => res = Expected(g[req.op], req.op, req.kw)
            /\ (req.op \in DOMAIN g /\ req.op \notin DOMAIN o)
                  => \A v \in Variants : ResolveUnder(v) = res

\* C7 witness: a command both tables define was resolved under siglent_sdg and
\* rendered from the override template, which differs from the generic one.
C7_Witness ==
    /\ req.family = "awg" /\ req.variant = "siglent_sdg" /\ req.op = "set_frequency"
    /\ res.kind = "ok"
    /\ res = Expected(AWG_SIGLENT_SDG_OVERRIDES["set_frequency"], req.op, req.kw)
    /\ res # Expected(AWG_GENERIC_COMMANDS["set_frequency"], req.op, req.kw)

\* The template get_command selects for the request, if any.
Selected ==
    LET g == GenericTable(req.family)
        o == OverrideTable(req.family)
    IN  IF req.variant = OverrideVariant(req.family) /\ req.op \in DOMAIN o THEN <<o[req.op]>>
        ELSE IF req.op \in DOMAIN g THEN <<g[req.op]>>
        ELSE <<>>

\* C8: get_command never returns a partially rendered command: when a
\* placeholder of the selected template has no value it fails, naming the
\* operation and a missing key, and a returned command holds no placeholder.
C8_NoPartialRendering ==
    res # NoResult =>
        /\ (Selected # <<>> /\ Missing(Selected[1], req.kw) # {})
              => /\ res.kind = "ValueError"
                 /\ res.op = req.op
                 /\ \E i \in Missing(Selected[1], req.kw) : res.key = Selected[1][i].s
        /\ res.kind = "ok" => \A i \in 1..Len(res.out) : ~res.out[i].ph

\* C8 witness: a lookup with some of its parameters supplied and one missing
\* failed and named the missing key.
C8_Witness ==
    /\ req.family = "daq" /\ req.op = "configure_voltage_dc"
    /\ DOMAIN req.kw = {"range", "channels"}
    /\ res.kind = "ValueError" /\ res.key = "resolution"

(***************************************************************************)
(* The capability registries (daq_models, awg_models).  A string is a      *)
(* sequence of one-character strings.                                      *)
(***************************************************************************)
Whitespace == {" ", "\t", "\n", "\r", "\f"}

LowerCase == <<"a", "b", "c", "d", "e", "f", "g", "h", "i", "j", "k", "l", "m", "n", "o", "p", "q", "r", "s", "t", "u", "v", "w", "x", "y", "z">>

UpperCase == <<"A", "B", "C", "D", "E", "F", "G", "H", "I", "J", "K", "L", "M", "N", "O", "P", "Q", "R", "S", "T", "U", "V", "W", "X", "Y", "Z">>

UpperChar(c) ==
    IF \E i \in DOMAIN LowerCase : LowerCase[i] = c
    THEN UpperCase[CHOOSE i \in DOMAIN LowerCase : LowerCase[i] = c]
    ELSE c

\* str.upper()
StrUpper(s) == [i \in 1..Len(s) |-> UpperChar(s[i])]

\* str.split(","): one more part than there are commas
RECURSIVE StrSplit(_)
StrSplit(s) ==
    IF \A i \in 1..Len(s) : s[i] # "," THEN <<s>>
    ELSE LET i == CHOOSE k \in 1..Len(s) : s[k] = "," /\ \A j \in 1..(k - 1) : s[j] # ","
         IN  <<SubSeq(s, 1, i - 1)>> \o StrSplit(SubSeq(s, i + 1, Len(s)))

RECURSIVE StrLStrip(_)
StrLStrip(s) == IF s # <<>> /\ Head(s) \in Whitespace THEN StrLStrip(Tail(s)) ELSE s

RECURSIVE StrRStrip(_)
StrRStrip(s) ==
    IF s # <<>> /\ s[Len(s)] \in Whitespace THEN StrRStrip(SubSeq(s, 1, Len(s) - 1)) ELSE s

\* str.strip()
StrStrip(s) == StrRStrip(StrLStrip(s))

RemoveChar(c) == c \notin Whitespace \cup {"-", "_"}

\* A normalization that keeps the case of letters.
Normalize_KeepCase(s) == SelectSeq(s, RemoveChar)

\* re.sub(r"[\s\-_]", "", s).upper()
Normalize(s) == StrUpper(SelectSeq(s, RemoveChar))

NotSpace(c) == c # " "

\* s.replace(" ", "").upper()
Squeeze(s) == StrUpper(SelectSeq(s, NotSpace))

\* needle in hay
Contains(hay, needle) ==
    \E i \in 0..(Len(hay) - Len(needle)) : SubSeq(hay, i + 1, i + Len(needle)) = needle

\* the entry a loop over registry.items() returns: the first one, in insertion
\* order, of those that satisfy the loop's test
First(S) == CHOOSE i \in S : \A j \in S : i <= j

create_generic_daq_capability(idn_string) ==
    LET parts == StrSplit(idn_string)
    IN  DAQCapability(IF Len(parts) > 1 THEN StrStrip(parts[2]) ELSE <<"G", "e", "n", "e", "r", "i", "c", " ", "D", "A", "Q">>,
                   IF Len(parts) > 0 THEN StrStrip(parts[1]) ELSE <<"U", "n", "k", "n", "o", "w", "n">>,
                   TRUE, TRUE, FALSE, FALSE, "generic")

create_generic_awg_capability(idn_string) ==
    LET parts == StrSplit(idn_string)
    IN  AWGCapability(IF Len(parts) > 1 THEN StrStrip(parts[2]) ELSE <<"G", "e", "n", "e", "r", "i", "c", " ", "A", "W", "G">>,
                   IF Len(parts) > 0 THEN StrStrip(parts[1]) ELSE <<"U", "n", "k", "n", "o", "w", "n">>,
                   FALSE, FALSE, FALSE, FALSE, FALSE, "generic")

\* A guard that lets a string with fewer than two fields through.
TooFewFields_None(parts) == Len(parts) < 1

\* if len(parts) < 2
TooFewFields(parts) == Len(parts) < 2

\* A manufacturer test that lets every manufacturer through.
KeysightFamily_Any(manufacturer) == TRUE

\* any(mfr in manufacturer for mfr in ["Keysight", "Agilent", "HP"])
KeysightFamily(manufacturer) ==
    \/ Contains(manufacturer, <<"K", "e", "y", "s", "i", "g", "h", "t">>)
    \/ Contains(manufacturer, <<"A", "g", "i", "l", "e", "n", "t">>)
    \/ Contains(manufacturer, <<"H", "P">>)

detect_daq_from_idn(idn_string) ==
    LET parts == StrSplit(idn_string)
    IN  IF TooFewFields(parts) THEN create_generic_daq_capability(idn_string)
        ELSE IF Len(parts) < 2 THEN IndexError
        ELSE LET manufacturer   == StrStrip(parts[1])
                 model_from_idn == StrStrip(parts[2])
                 R       == registry.daq
                 exact   == {i \in DOMAIN R : R[i].key = model_from_idn}
                 fuzzy   == {i \in DOMAIN R : Normalize(model_from_idn) = Normalize(R[i].key)}
                 partial == {i \in DOMAIN R : Contains(model_from_idn, R[i].key)}
             IN  IF exact # {} THEN R[First(exact)].cap
                 ELSE IF fuzzy # {} THEN R[First(fuzzy)].cap
                 ELSE IF KeysightFamily(manufacturer) /\ partial # {} THEN R[First(partial)].cap
                 ELSE create_generic_daq_capability(idn_string)

detect_awg_from_idn(idn_string) ==
    LET parts == StrSplit(idn_string)
    IN  IF TooFewFields(parts) THEN create_generic_awg_capability(idn_string)
        ELSE IF Len(parts) < 2 THEN IndexError
        ELSE LET manufacturer   == StrStrip(parts[1])
                 model_from_idn == StrStrip(parts[2])
                 R       == registry.awg
                 exact   == {i \in DOMAIN R : R[i].key = model_from_idn}
                 fuzzy   == {i \in DOMAIN R : Normalize(model_from_idn) = Normalize(R[i].key)}
                 partial == {i \in DOMAIN R : Contains(Squeeze(model_from_idn), Squeeze(R[i].key))}
             IN  IF exact # {} THEN R[First(exact)].cap
                 ELSE IF fuzzy # {} THEN R[First(fuzzy)].cap
                 ELSE IF /\ Contains(manufacturer, <<"S", "i", "g", "l", "e", "n", "t">>)
                         /\ Contains(StrUpper(model_from_idn), <<"S", "D", "G">>)
                         /\ partial # {}
                      THEN R[First(partial)].cap
                 ELSE create_generic_awg_capability(idn_string)

(***************************************************************************)
(* Detection behaviours: one identification string, one detection.         *)
(***************************************************************************)
\* first fields of an identification string
IdnManufacturers ==
    { <<>>,
      <<"K", "e", "y", "s", "i", "g", "h", "t", " ", "T", "e", "c", "h", "n", "o", "l", "o", "g", "i", "e", "s">>,
      <<"A", "g", "i", "l", "e", "n", "t", " ", "T", "e", "c", "h", "n", "o", "l", "o", "g", "i", "e", "s">>,
      <<"H", "P">>,
      <<"A", "c", "m", "e", " ", "C", "o", "r", "p">>,
      <<"S", "i", "g", "l", "e", "n", "t", " ", "T", "e", "c", "h", "n", "o", "l", "o", "g", "i", "e", "s">>,
      <<"S", "I", "G", "L", "E", "N", "T">> }

\* second fields: registered names, their spellings, extensions and strangers
IdnModels ==
    { <<>>,
      <<"3", "4", "9", "7", "0", "A">>,
      <<" ", "3", "4", "9", "7", "0", "A", " ">>,
      <<"3", "4", "9", "7", "0", "a">>,
      <<"3", "4", "-", "9", "7", "0", "_", "A">>,
      <<"3", "4", "9", "7", "0", "A", "-", "E">>,
      <<"X", "3", "4", "9", "7", "2", "A">>,
      <<"D", "A", "Q", "9", "7", "0", "A">>,
      <<"W", "i", "d", "g", "e", "t", "-", "9", "0", "0", "0">>,
      <<"S", "D", "G", "1", "0", "3", "2", "X">>,
      <<"s", "d", "g", "1", "0", "3", "2", "x">>,
      <<"S", "D", "G", " ", "1", "0", "3", "2", "X">>,
      <<"S", "D", "G", "1", "0", "3", "2", "X", "-", "E">>,
      <<"s", "d", "g", " ", "1", "0", "2", "5", " ", "p", "l", "u", "s">>,
      <<"S", "D", "G", "9", "9", "9", "9">>,
      <<"S", "D", "G", "2", "0", "4", "2", "X">>,
      <<"3", "4", "9", "7", "0", "a", "-", "E">>,
      <<"S", "D", "G", "_", "1", "0", "3", "2", "X", "-", "E">> }

\* serial number and firmware fields, when present
IdnTails ==
    { <<>>,
      <<",", "S", "N", "1">>,
      <<",", "S", "N", "1", ",", "1", ".", "0">> }

\* identification strings: without a comma, and with two to four fields
IdnStrings ==
    IdnManufacturers
    \cup {m \o <<",">> \o d \o t : m \in IdnManufacturers, d \in IdnModels, t \in IdnTails}

DetectDAQ ==
    /\ idn.family = "daq"
    /\ profile = NoProfile
    /\ profile' = detect_daq_from_idn(idn.text)
    /\ UNCHANGED <<idn, transportVars, threadVars, decodeVars, catalogVars, registryVars, acquireVars, setterVars, facadeOpVars, twinVars, cancelVars, cannedVars>>

DetectAWG ==
    /\ idn.family = "awg"
    /\ profile = NoProfile
    /\ profile' = detect_awg_from_idn(idn.text)
    /\ UNCHANGED <<idn, transportVars, threadVars, decodeVars, catalogVars, registryVars, acquireVars, setterVars, facadeOpVars, twinVars, cancelVars, cannedVars>>

DetectInit ==
    /\ idn \in {[family |-> f, text |-> s] : f \in Families, s \in IdnStrings}
    /\ profile = NoProfile
    /\ impl = "socket" /\ sc = SocketInit /\ mc = MockInit /\ last = NoCall
    /\ ThreadsIdle
    /\ DecodeIdle
    /\ CatalogIdle
    /\ RegistryIdle
    /\ AcquireIdle
    /\ SettersIdle
    /\ FacadeOpsIdle
    /\ TwinIdle
    /\ CancelIdle
    /\ CannedIdle

DetectNext == DetectDAQ \/ DetectAWG

SpecDetect == DetectInit /\ [][DetectNext]_vars

\* The template get_command selects for a family, variant tag and command.
SelectedFor(f, v, op) ==
    IF v = OverrideVariant(f) /\ op \in DOMAIN OverrideTable(f) THEN OverrideTable(f)[op]
    ELSE GenericTable(f)[op]

\* A value for every placeholder of the selected template.
AllSupplied(f, v, op) == [k \in Placeholders(SelectedFor(f, v, op)) |-> "1"]

SupportsUnder(f, v, op) ==
    IF f = "awg" THEN AWG_supports_command(v, op) ELSE DAQ_supports_command(v, op)

GetCommandUnder(f, v, op, kw) ==
    IF f = "awg" THEN AWG_get_command(v, op, kw) ELSE DAQ_get_command(v, op, kw)

\* C9: the variant of the profile detect returns selects a catalog under which
\* every operation of the generic table is supported and, given all its
\* placeholders, resolves to a command, whether the profile came from a
\* registry entry or from the generic fallback.
C9_DetectedVariantSupportsGeneric ==
    profile.kind = "profile" =>
        \A op \in DOMAIN GenericTable(idn.family) :
            /\ SupportsUnder(idn.family, profile.scpi_variant, op)
            /\ GetCommandUnder(idn.family, profile.scpi_variant, op,
                               AllSupplied(idn.family, profile.scpi_variant, op)).kind = "ok"

\* C9 witness: a registry entry with an override variant was detected, for a
\* family whose generic table has operations the override table lacks.
C9_Witness ==
    /\ idn.family = "daq"
    /\ profile.kind = "profile"
    /\ profile.scpi_variant = "keysight_daq"
    /\ \E op \in DOMAIN DAQ_GENERIC_COMMANDS : op \notin DOMAIN DAQ_KEYSIGHT_DAQ_OVERRIDES

\* C10: detect returns a capability profile for every identification string
\* and raises nothing.
C10_DetectIsTotal ==
    profile # NoProfile => profile.kind = "profile"

\* C10 witness: a string without a comma was given to detect, which answered
\* with the generic profile.
C10_Witness ==
    /\ Len(StrSplit(idn.text)) < 2
    /\ profile.kind = "profile"
    /\ profile.scpi_variant = "generic"

(***************************************************************************)
(* Matching rules of the registries, stated independently of the code's    *)
(* string operations.                                                      *)
(***************************************************************************)
RegistryOf(f) == IF f = "awg" THEN AWG_MODEL_REGISTRY ELSE DAQ_MODEL_REGISTRY

\* the manufacturer names for which a family attempts the partial match
Aliases(f) ==
    IF f = "awg" THEN {<<"S", "i", "g", "l", "e", "n", "t">>}
    ELSE {<<"K", "e", "y", "s", "i", "g", "h", "t">>, <<"A", "g", "i", "l", "e", "n", "t">>, <<"H", "P">>}

\* whitespace, hyphens and underscores removed, the rest upper-cased
RECURSIVE NormalForm(_)
NormalForm(s) ==
    IF s = <<>> THEN <<>>
    ELSE (IF Head(s) \in {" ", "\t", "\n", "\r", "\f", "-", "_"} THEN <<>>
          ELSE <<UpperChar(Head(s))>>) \o NormalForm(Tail(s))

\* the fields of the identification string that was given to detect
IdnFields == StrSplit(idn.text)

HasAlias == \E a \in Aliases(idn.family) : Contains(IdnFields[1], a)

\* the registry entries whose key the model field equals, exactly or in normal form
EqualKeys ==
    {i \in DOMAIN RegistryOf(idn.family) :
        \/ IdnFields[2] = RegistryOf(idn.family)[i].key
        \/ NormalForm(IdnFields[2]) = NormalForm(RegistryOf(idn.family)[i].key)}

\* the registry entries whose key, in normal form, the model field contains
ContainedKeys ==
    {i \in DOMAIN RegistryOf(idn.family) :
        Contains(NormalForm(IdnFields[2]), NormalForm(RegistryOf(idn.family)[i].key))}

\* C11: when the model field of a string with at least two fields equals a
\* registry key, exactly or after whitespace, hyphens and underscores are
\* removed and both sides upper-cased, detect returns that key's profile,
\* whatever the manufacturer field holds.
C11_EqualModelGivesRegistryProfile ==
    (profile # NoProfile /\ Len(IdnFields) >= 2) =>
        \A i \in EqualKeys : profile = RegistryOf(idn.family)[i].cap

\* C11 witness: an Agilent-branded string whose model is a differently spelled
\* registry key was detected as that key's profile.
C11_Witness ==
    /\ idn.family = "daq"
    /\ Len(IdnFields) >= 2
    /\ Contains(IdnFields[1], <<"A", "g", "i", "l", "e", "n", "t">>)
    /\ IdnFields[2] = <<"3", "4", "-", "9", "7", "0", "_", "A">>
    /\ profile = DAQ_MODEL_REGISTRY[1].cap

\* C12: when the manufacturer contains an allow-listed alias and the model,
\* in normal form, contains a registry key in normal form, detect returns the
\* profile of such a key and not the generic fallback.
C12_ContainedKeyGivesRegistryProfile ==
    (profile # NoProfile /\ Len(IdnFields) >= 2 /\ HasAlias /\ ContainedKeys # {}) =>
        \E i \in ContainedKeys : profile = RegistryOf(idn.family)[i].cap

\* The optional-feature flags that gate operations of the facades.
GatingFlags(f) ==
    IF f = "awg" THEN {"has_modulation", "has_sweep", "has_burst", "has_arbitrary", "has_noise"}
    ELSE {"has_alarm", "has_math"}

\* The generic profile synthesized from the string's first two fields.
IsGenericFromString ==
    /\ profile.kind = "profile"
    /\ profile.scpi_variant = "generic"
    /\ profile.manufacturer = StrStrip(IdnFields[1])
    /\ profile.model_name = StrStrip(IdnFields[2])

\* C13 as stated: without an allow-listed alias and without an equal key,
\* detect returns the generic profile with every feature flag false.
C13_GenericHasEveryFlagOff ==
    (profile # NoProfile /\ Len(IdnFields) >= 2 /\ ~HasAlias /\ EqualKeys = {}) =>
        /\ IsGenericFromString
        /\ \A k \in DOMAIN profile.flags : ~profile.flags[k]

\* C13: without an allow-listed alias in the manufacturer and without a
\* registry key equal to the model, detect returns the generic profile, made
\* from the string's manufacturer and model, with the flags that gate
\* operations (has_alarm, has_math; the generator's has_* flags) false, even
\* when a registry key is part of the model; has_internal_dmm and
\* has_timestamp stay true.
C13_GenericWithoutAlias ==
    (profile # NoProfile /\ Len(IdnFields) >= 2 /\ ~HasAlias /\ EqualKeys = {}) =>
        /\ IsGenericFromString
        /\ \A k \in GatingFlags(idn.family) : ~profile.flags[k]
        /\ idn.family = "daq" => (profile.flags.has_internal_dmm /\ profile.flags.has_timestamp)

\* C13 witness: a string of an unlisted manufacturer whose model contains a
\* registry key was detected as generic.
C13_Witness ==
    /\ idn.family = "daq"
    /\ Len(IdnFields) >= 2
    /\ ~HasAlias
    /\ EqualKeys = {}
    /\ Contains(IdnFields[2], <<"3", "4", "9", "7", "0", "A">>)
    /\ profile.kind = "profile"
    /\ profile.scpi_variant = "generic"

(***************************************************************************)
(* The facades DataLogger and FunctionGenerator: connect identifies the    *)
(* instrument, detects its capability and selects the command set;         *)
(* disconnect forgets them.  model_capability refers to the registry's own *)
(* entry when detect returned one (ref is its position, 0 for an object    *)
(* made for the call).                                                     *)
(***************************************************************************)
Detect(f, idn_string) ==
    IF f = "awg" THEN detect_awg_from_idn(idn_string) ELSE detect_daq_from_idn(idn_string)

\* the registry entry detect returned, 0 when it made a generic profile
EntryOf(f, cap) ==
    IF \E i \in DOMAIN registry[f] : registry[f][i].cap = cap
    THEN CHOOSE i \in DOMAIN registry[f] : registry[f][i].cap = cap
    ELSE 0

parse_idn(idn_string) ==
    LET parts == StrSplit(idn_string)
    IN  [manufacturer |-> IF Len(parts) > 0 THEN StrStrip(parts[1]) ELSE <<>>,
         model        |-> IF Len(parts) > 1 THEN StrStrip(parts[2]) ELSE <<>>]

\* The kinds of error the transport raises.
TransportErrors == {"ConnectionError", "TimeoutError"}

\* A connect that stores the identified manufacturer in the capability.
Identified_WritesCapability(f, idn_string) ==
    LET info == parse_idn(idn_string)
        cap  == Detect(f, idn_string)
        ref  == EntryOf(f, cap)
    IN  [registry |-> IF ref = 0 THEN registry
                      ELSE [registry EXCEPT ![f][ref].cap.manufacturer = info.manufacturer],
         facade   |-> [family |-> f, connected |-> TRUE,
                       model_capability |-> [ref |-> ref, cap |-> cap],
                       device_info |-> info,
                       variant |-> cap.scpi_variant, raised |-> "none",
                       cycled |-> facade.cycled]]

\* The try block of connect once identify() has answered: _parse_idn, detect,
\* the command set for the capability's variant and, for the generator, the
\* capability's manufacturer copied into _device_info.
Identified(f, idn_string) ==
    LET info == parse_idn(idn_string)
        cap  == Detect(f, idn_string)
    IN  [registry |-> registry,
         facade   |-> [family |-> f, connected |-> TRUE,
                       model_capability |-> [ref |-> EntryOf(f, cap), cap |-> cap],
                       device_info |-> IF f = "awg"
                                       THEN [info EXCEPT !.manufacturer = cap.manufacturer]
                                       ELSE info,
                       variant |-> cap.scpi_variant, raised |-> "none",
                       cycled |-> facade.cycled]]

\* A disconnect that keeps the command set.
Disconnected_KeepsCommands(raised) ==
    [facade EXCEPT !.connected = FALSE, !.model_capability = NoCapability,
                   !.device_info = NoInfo, !.raised = raised,
                   !.cycled = facade.cycled \/ facade.connected]

\* disconnect(): the transport is closed and the facade forgets the instrument
Disconnected(raised) ==
    [facade EXCEPT !.connected = FALSE, !.model_capability = NoCapability,
                   !.device_info = NoInfo, !.variant = "", !.raised = raised,
                   !.cycled = facade.cycled \/ facade.connected]

\* identification strings for sequences of calls
IdnSample ==
    {<<>>}
    \cup {m \o <<",">> \o d :
            m \in {<<"K", "e", "y", "s", "i", "g", "h", "t", " ", "T", "e", "c", "h", "n", "o", "l", "o", "g", "i", "e", "s">>, <<"A", "c", "m", "e", " ", "C", "o", "r", "p">>},
            d \in {<<"3", "4", "9", "7", "0", "A">>, <<"3", "4", "9", "7", "0", "A", "-", "E">>, <<"S", "D", "G", "1", "0", "3", "2", "X">>}}

\* detect called directly
DetectCall ==
    \E f \in Families, s \in IdnSample :
        /\ idn' = [family |-> f, text |-> s]
        /\ profile' = Detect(f, s)
        /\ prev' = [idn |-> idn, profile |-> profile]
        /\ UNCHANGED <<registry, facade, transportVars, threadVars, decodeVars, catalogVars, acquireVars, setterVars, facadeOpVars, twinVars, cancelVars, cannedVars>>

\* connect() when the transport cannot connect: the error leaves connect as it is
FacadeConnectFails ==
    \E f \in Families, e \in TransportErrors :
        /\ ~facade.connected
        /\ facade' = [facade EXCEPT !.family = f, !.raised = e]
        /\ UNCHANGED <<registry, prev, detectVars, transportVars, threadVars, decodeVars,
                       catalogVars, acquireVars, setterVars, facadeOpVars, twinVars, cancelVars, cannedVars>>

\* connect() when identify() raises: disconnect, then SiglentConnectionError
FacadeIdentifyFails ==
    \E f \in Families, e \in TransportErrors :
        /\ ~facade.connected
        /\ facade' = [Disconnected("SiglentConnectionError") EXCEPT !.family = f,
                                                                 !.cycled = facade.cycled]
        /\ UNCHANGED <<registry, prev, detectVars, transportVars, threadVars, decodeVars,
                       catalogVars, acquireVars, setterVars, facadeOpVars, twinVars, cancelVars, cannedVars>>

\* connect() when the instrument answers *IDN? with s
FacadeConnect ==
    \E f \in Families, s \in IdnSample :
        /\ ~facade.connected
        /\ LET r == Identified(f, s)
           IN  /\ idn' = [family |-> f, text |-> s]
               /\ profile' = r.facade.model_capability.cap
               /\ prev' = [idn |-> idn, profile |-> profile]
               /\ registry' = r.registry
               /\ facade' = r.facade
        /\ UNCHANGED <<transportVars, threadVars, decodeVars, catalogVars, acquireVars, setterVars, facadeOpVars, twinVars, cancelVars, cannedVars>>

FacadeDisconnect ==
    /\ facade' = Disconnected("none")
    /\ facade' # facade
    /\ UNCHANGED <<registry, prev, detectVars, transportVars, threadVars, decodeVars,
                   catalogVars, acquireVars, setterVars, facadeOpVars, twinVars, cancelVars, cannedVars>>

RegistryInit ==
    /\ RegistryIdle
    /\ AcquireIdle
    /\ DetectIdle
    /\ impl = "socket" /\ sc = SocketInit /\ mc = MockInit /\ last = NoCall
    /\ ThreadsIdle
    /\ DecodeIdle
    /\ CatalogIdle
    /\ SettersIdle
    /\ FacadeOpsIdle
    /\ TwinIdle
    /\ CancelIdle
    /\ CannedIdle

RegistryNext ==
    \/ DetectCall
    \/ FacadeConnectFails
    \/ FacadeIdentifyFails
    \/ FacadeConnect
    \/ FacadeDisconnect

SpecRegistry == RegistryInit /\ [][RegistryNext]_vars

\* C14: after any sequence of detect calls and facade connect/disconnect
\* cycles the registries hold the entries they were loaded with, and two detect
\* calls with the same identification string return profiles with the same
\* field values.
C14_DetectReadOnlyAndIdempotent ==
    /\ registry = LoadedRegistry
    /\ (prev.idn = idn /\ prev.idn # NoIdn) => prev.profile = profile

\* C14 witness: after a connect/disconnect cycle, a registered model was
\* detected twice in a row from the same string.
C14_Witness ==
    /\ facade.cycled
    /\ prev.idn = idn
    /\ profile.kind = "profile"
    /\ profile.scpi_variant = "keysight_daq"
    /\ prev.profile = profile

(***************************************************************************)
(* Acquisition through the mock: the mock frames its payload as a block,   *)
(* _parse_waveform decodes it, _convert_to_voltage scales the codes.  A    *)
(* voltage is the fraction num/den of a volt; scale and offset are whole   *)
(* volts.                                                                  *)
(***************************************************************************)
MaxSamples == 4

\* str(n).encode() for n >= 0
RECURSIVE DecimalDigits(_)
DecimalDigits(n) ==
    IF n < 10 THEN <<48 + n>> ELSE DecimalDigits(n \div 10) \o <<48 + (n % 10)>>

\* b"DESC,#"
BlockPrefix == <<68, 69, 83, 67, 44, 35>>

\* A framing that leaves out the count of length digits.
build_waveform_block_NoCount(payload) == BlockPrefix \o DecimalDigits(Len(payload)) \o payload

build_waveform_block(payload) ==
    LET length_str == DecimalDigits(Len(payload))
    IN  BlockPrefix \o DecimalDigits(Len(length_str)) \o length_str \o payload

\* the dtype _parse_waveform gives the array of codes
DType(format) == IF format = "BYTE" THEN "int8" ELSE "int16"

\* A conversion that centres the codes at 127.
convert_to_voltage_Center127(codes, dtype, voltage_scale, voltage_offset) ==
    LET code_per_div == IF dtype = "int8" THEN 25 ELSE 6400
    IN  [i \in 1..Len(codes) |->
            [num |-> (codes[i] - 127) * voltage_scale - voltage_offset * code_per_div,
             den |-> code_per_div]]

\* (codes - code_center) * (voltage_scale / code_per_div) - voltage_offset
convert_to_voltage(codes, dtype, voltage_scale, voltage_offset) ==
    LET code_per_div == IF dtype = "int8" THEN 25 ELSE 6400
        code_center  == 0
    IN  [i \in 1..Len(codes) |->
            [num |-> (codes[i] - code_center) * voltage_scale - voltage_offset * code_per_div,
             den |-> code_per_div]]

\* codes a payload is made from, and channel settings
SampleCodes == {-128, 0, 25, 50, 75, 127}

Scales == {1, 2}

Offsets == {0, 1}

\* sequences of up to MaxSamples codes, and one whose length takes two digits
CodeSeqs == UNION {[1..n -> SampleCodes] : n \in 0..MaxSamples} \cup {[i \in 1..10 |-> 25]}

\* the voltage of a BYTE code on a channel, and the code of such a voltage
VoltageOfCode(c, scale, offset) == [num |-> c * scale - offset * 25, den |-> 25]

CodeOfVoltage(v, scale, offset) == (v.num + offset * 25) \div scale

\* a code as a payload byte (two's complement)
ByteOfCode(c) == c % 256

\* MockConnection.read_raw: the configured payload, framed
MockReadBlock ==
    /\ wave.stage = "configured"
    /\ raw' = build_waveform_block(wave.payload)
    /\ wave' = [wave EXCEPT !.stage = "read"]
    /\ UNCHANGED <<orig, fmt, parsed, transportVars, threadVars, catalogVars, detectVars,
                   registryVars, setterVars, facadeOpVars, twinVars, cancelVars, cannedVars>>

\* acquire: _parse_waveform on what read_raw returned
AcquireParse ==
    /\ wave.stage = "read"
    /\ parsed = Pending
    /\ parsed' = parse_waveform(raw, fmt)
    /\ wave' = [wave EXCEPT !.stage = "parsed"]
    /\ UNCHANGED <<orig, raw, fmt, transportVars, threadVars, catalogVars, detectVars,
                   registryVars, setterVars, facadeOpVars, twinVars, cancelVars, cannedVars>>

\* acquire: _convert_to_voltage on the parsed codes
Convert ==
    /\ wave.stage = "parsed"
    /\ parsed.kind = "ok"
    /\ wave' = [wave EXCEPT !.stage = "converted",
                            !.voltage = convert_to_voltage(parsed.codes, DType(fmt),
                                                           wave.scale, wave.offset)]
    /\ UNCHANGED <<orig, decodeVars, transportVars, threadVars, catalogVars, detectVars,
                   registryVars, setterVars, facadeOpVars, twinVars, cancelVars, cannedVars>>

AcquireInit ==
    /\ \E codes \in CodeSeqs, scale \in Scales, offset \in Offsets :
          /\ orig = [i \in 1..Len(codes) |-> VoltageOfCode(codes[i], scale, offset)]
          /\ wave = [stage |-> "configured", scale |-> scale, offset |-> offset,
                     payload |-> [i \in 1..Len(codes) |->
                                     ByteOfCode(CodeOfVoltage(orig[i], scale, offset))],
                     voltage |-> <<>>]
    /\ raw = <<>> /\ fmt \in Formats /\ parsed = Pending
    /\ impl = "socket" /\ sc = SocketInit /\ mc = MockInit /\ last = NoCall
    /\ ThreadsIdle
    /\ CatalogIdle
    /\ DetectIdle
    /\ RegistryIdle
    /\ SettersIdle
    /\ FacadeOpsIdle
    /\ TwinIdle
    /\ CancelIdle
    /\ CannedIdle

AcquireNext == MockReadBlock \/ AcquireParse \/ Convert

SpecAcquire == AcquireInit /\ [][AcquireNext]_vars

\* the bytes after the block header of what the mock returned
PayloadBytes == SubSeq(raw, Len(raw) - Len(wave.payload) + 1, Len(raw))

SignedByte(b) == IF b >= 128 THEN b - 256 ELSE b

SignedWord(lo, hi) == IF lo + 256 * hi >= 32768 THEN lo + 256 * hi - 65536 ELSE lo + 256 * hi

Abs(x) == IF x < 0 THEN 0 - x ELSE x

\* C16: voltages made from codes in -128..127, encoded with the inverse of
\* the BYTE formula, framed as a '#<n><length>' block and decoded, come back
\* within one code step (voltage_scale / 25) of the originals, as many as
\* there were and in the same order.
C16_ByteRoundTrip ==
    fmt = "BYTE" =>
        /\ wave.stage \in {"parsed", "converted"} => parsed.kind = "ok"
        /\ wave.stage = "converted" =>
              /\ Len(wave.voltage) = Len(orig)
              /\ \A i \in 1..Len(orig) :
                    /\ wave.voltage[i].den = orig[i].den
                    /\ Abs(wave.voltage[i].num - orig[i].num) <= wave.scale

\* C16 witness: a sequence with a negative and a positive voltage went
\* through encoding, framing and decoding and came back.
C16_Witness ==
    /\ fmt = "BYTE"
    /\ wave.stage = "converted"
    /\ Len(orig) >= 2
    /\ orig[1] = VoltageOfCode(-128, wave.scale, wave.offset)
    /\ orig[2] = VoltageOfCode(75, wave.scale, wave.offset)
    /\ wave.voltage = orig

(***************************************************************************)
(* Parameter validation: the setters of an AWGOutput channel and the       *)
(* channel number of WaveformAcquisition.acquire.  A float argument is a   *)
(* number or NaN; the comparisons are Python's, which are all false when   *)
(* an operand is NaN.  A call's outcome is the error it raised and the     *)
(* commands it wrote to the transport.                                     *)
(***************************************************************************)
Num(n) == [nan |-> FALSE, n |-> n]

NaN == [nan |-> TRUE, n |-> 0]

\* a < b, a <= b, a > b and abs(a) on floats
PyLt(a, b) == IF a.nan THEN FALSE ELSE IF b.nan THEN FALSE ELSE a.n < b.n

PyLe(a, b) == IF a.nan THEN FALSE ELSE IF b.nan THEN FALSE ELSE a.n <= b.n

PyGt(a, b) == IF a.nan THEN FALSE ELSE IF b.nan THEN FALSE ELSE a.n > b.n

PyAbs(a) == IF a.nan THEN a ELSE IF a.n < 0 THEN Num(0 - a.n) ELSE a

\* the limits of a channel, in whole units
ChannelSpec(ch) ==
    [channel_num |-> ch, max_frequency |-> Num(3), max_amplitude |-> Num(3),
     min_amplitude |-> Num(1), max_offset |-> Num(2)]

valid_waveforms ==
    {<<"S", "I", "N", "E">>, <<"S", "Q", "U", "A", "R", "E">>, <<"R", "A", "M", "P">>, <<"P", "U", "L", "S", "E">>, <<"N", "O", "I", "S", "E">>, <<"A", "R", "B">>, <<"D", "C">>}

InvalidParameter == [raised |-> "InvalidParameterError", sent |-> <<>>]

\* cmd = self._awg._get_command(name, ...); self._awg.write(cmd)
RenderAndWrite(variant, command_name, kw) ==
    LET cmd == AWG_get_command(variant, command_name, kw)
    IN  IF cmd.kind # "ok" THEN [raised |-> cmd.kind, sent |-> <<>>]
        ELSE [raised |-> "none", sent |-> <<cmd.out>>]

set_function(variant, ch, waveform) ==
    LET waveform_upper == StrUpper(waveform)
    IN  IF waveform_upper \notin valid_waveforms THEN InvalidParameter
        ELSE RenderAndWrite(variant, "set_function", [ch |-> ch, function |-> waveform_upper])

set_frequency(variant, ch, freq_hz) ==
    IF ~(PyLt(Num(0), freq_hz) /\ PyLe(freq_hz, ChannelSpec(ch).max_frequency))
    THEN InvalidParameter
    ELSE RenderAndWrite(variant, "set_frequency", [ch |-> ch, frequency |-> freq_hz])

set_amplitude(variant, ch, vpp) ==
    IF ~(PyLe(ChannelSpec(ch).min_amplitude, vpp) /\ PyLe(vpp, ChannelSpec(ch).max_amplitude))
    THEN InvalidParameter
    ELSE RenderAndWrite(variant, "set_amplitude", [ch |-> ch, amplitude |-> vpp])

set_offset(variant, ch, volts) ==
    IF PyGt(PyAbs(volts), ChannelSpec(ch).max_offset)
    THEN InvalidParameter
    ELSE RenderAndWrite(variant, "set_offset", [ch |-> ch, offset |-> volts])

set_phase(variant, ch, degrees) ==
    IF ~(PyLe(Num(0), degrees) /\ PyLe(degrees, Num(360)))
    THEN InvalidParameter
    ELSE RenderAndWrite(variant, "set_phase", [ch |-> ch, phase |-> degrees])

set_pulse_duty_cycle(variant, ch, percent) ==
    IF ~(PyLt(Num(0), percent) /\ PyLt(percent, Num(100)))
    THEN InvalidParameter
    ELSE RenderAndWrite(variant, "set_pulse_duty", [ch |-> ch, duty |-> percent])

set_ramp_symmetry(variant, ch, percent) ==
    IF ~(PyLe(Num(0), percent) /\ PyLe(percent, Num(100)))
    THEN InvalidParameter
    ELSE RenderAndWrite(variant, "set_ramp_symmetry", [ch |-> ch, symmetry |-> percent])

\* WaveformAcquisition.acquire up to the waveform request: the channel check,
\* then the four settings queries and the request
acquire_request(channel) ==
    IF ~(1 <= channel /\ channel <= 4) THEN InvalidParameter
    ELSE [raised |-> "none",
          sent |-> << <<Lit("C"), Lit(channel), Lit(":VDIV?")>>,
                      <<Lit("C"), Lit(channel), Lit(":OFST?")>>,
                      <<Lit("TDIV?")>>,
                      <<Lit("SARA?")>>,
                      <<Lit("C"), Lit(channel), Lit(":WF? DAT2")>> >>]

\* arguments a caller passes
FloatValues == {NaN} \cup {Num(n) : n \in {-3, -1, 0, 1, 2, 3, 4, 99, 100, 101, 360, 361}}

WaveformNames ==
    {<<"S", "I", "N", "E">>, <<"s", "i", "n", "e">>, <<"P", "u", "l", "s", "e">>, <<"D", "C">>, <<"T", "R", "I", "A", "N", "G", "L", "E">>, <<>>}

OutputChannels == {1, 2}

AcquireChannels == {-1, 0, 1, 2, 4, 5}

Called(op, variant, ch, value, outcome) ==
    [op |-> op, variant |-> variant, ch |-> ch, value |-> value,
     raised |-> outcome.raised, sent |-> outcome.sent]

SetFunction ==
    \E variant \in Variants, ch \in OutputChannels, w \in WaveformNames :
        /\ call' = Called("function", variant, ch, w, set_function(variant, ch, w))
        /\ UNCHANGED notSetters

SetFrequency ==
    \E variant \in Variants, ch \in OutputChannels, v \in FloatValues :
        /\ call' = Called("frequency", variant, ch, v, set_frequency(variant, ch, v))
        /\ UNCHANGED notSetters

SetAmplitude ==
    \E variant \in Variants, ch \in OutputChannels, v \in FloatValues :
        /\ call' = Called("amplitude", variant, ch, v, set_amplitude(variant, ch, v))
        /\ UNCHANGED notSetters

SetOffset ==
    \E variant \in Variants, ch \in OutputChannels, v \in FloatValues :
        /\ call' = Called("offset", variant, ch, v, set_offset(variant, ch, v))
        /\ UNCHANGED notSetters

SetPhase ==
    \E variant \in Variants, ch \in OutputChannels, v \in FloatValues :
        /\ call' = Called("phase", variant, ch, v, set_phase(variant, ch, v))
        /\ UNCHANGED notSetters

SetPulseDutyCycle ==
    \E variant \in Variants, ch \in OutputChannels, v \in FloatValues :
        /\ call' = Called("pulse_duty_cycle", variant, ch, v,
                          set_pulse_duty_cycle(variant, ch, v))
        /\ UNCHANGED notSetters

SetRampSymmetry ==
    \E variant \in Variants, ch \in OutputChannels, v \in FloatValues :
        /\ call' = Called("ramp_symmetry", variant, ch, v, set_ramp_symmetry(variant, ch, v))
        /\ UNCHANGED notSetters

Acquire ==
    \E channel \in AcquireChannels :
        /\ call' = Called("acquire", "", channel, channel, acquire_request(channel))
        /\ UNCHANGED notSetters

SettersInit ==
    /\ SettersIdle
    /\ impl = "socket" /\ sc = SocketInit /\ mc = MockInit /\ last = NoCall
    /\ ThreadsIdle
    /\ DecodeIdle
    /\ CatalogIdle
    /\ DetectIdle
    /\ RegistryIdle
    /\ AcquireIdle
    /\ FacadeOpsIdle
    /\ TwinIdle
    /\ CancelIdle
    /\ CannedIdle

SettersNext ==
    \/ SetFunction
    \/ SetFrequency
    \/ SetAmplitude
    \/ SetOffset
    \/ SetPhase
    \/ SetPulseDutyCycle
    \/ SetRampSymmetry
    \/ Acquire

SpecSetters == SettersInit /\ [][SettersNext]_vars

\* the declared limits of a call's argument: a number within the interval the
\* channel declares, a waveform name of the list, a channel number from 1 to 4
WithinLimits ==
    LET v    == call.value
        spec == ChannelSpec(call.ch)
    IN  CASE call.op = "function" ->
                \E w \in valid_waveforms : StrUpper(v) = w
          [] call.op = "frequency" ->
                ~v.nan /\ 0 < v.n /\ v.n <= spec.max_frequency.n
          [] call.op = "amplitude" ->
                ~v.nan /\ spec.min_amplitude.n <= v.n /\ v.n <= spec.max_amplitude.n
          [] call.op = "offset" ->
                ~v.nan /\ 0 - spec.max_offset.n <= v.n /\ v.n <= spec.max_offset.n
          [] call.op = "phase" -> ~v.nan /\ 0 <= v.n /\ v.n <= 360
          [] call.op = "pulse_duty_cycle" -> ~v.nan /\ 0 < v.n /\ v.n < 100
          [] call.op = "ramp_symmetry" -> ~v.nan /\ 0 <= v.n /\ v.n <= 100
          [] call.op = "acquire" -> v \in 1..4
          [] OTHER -> TRUE

\* C17: a call whose argument is outside the declared limits raises
\* InvalidParameterError and writes nothing to the transport, for every setter
\* of a channel and for acquire's channel number.
C17_OutOfLimitsRejectedBeforeWrite ==
    ~WithinLimits => (call.raised = "InvalidParameterError" /\ call.sent = <<>>)

\* C17: the part that holds: a call that raised InvalidParameterError wrote
\* nothing, and every finite number outside the limits was rejected.
C17_RejectionWritesNothing ==
    /\ call.raised = "InvalidParameterError" => call.sent = <<>>
    /\ (~WithinLimits /\ ~(call.op = "offset" /\ call.value.nan)) =>
          call.raised = "InvalidParameterError"

\* the offset setter wrote a command that carries NaN
C17_OffsetNaNWritten ==
    /\ call.op = "offset"
    /\ call.value = NaN
    /\ call.raised = "none"
    /\ call.sent # <<>>

(***************************************************************************)
(* Errors through the facades Oscilloscope, FunctionGenerator and          *)
(* DataLogger.  cause is the error the transport or the catalog raised     *)
(* under the facade's call ("none" when it raised nothing), raised is the  *)
(* error the facade's caller gets.                                         *)
(***************************************************************************)
Facades == {"scope", "awg", "daq"}

\* the errors a transport call raises, and those of a catalog lookup
IOErrors == TransportErrors \cup {"CommandError"}

CatalogErrors == {"KeyError", "ValueError"}

\* raise exceptions.ConnectionError / exceptions.SiglentConnectionError
\* ("Connected but failed to identify device: ...")
IdentifyFailure(f) == IF f = "scope" THEN "ConnectionError" ELSE "SiglentConnectionError"

\* connect(): self._connection.connect() outside the try block; identify()
\* inside it, whose `except Exception` disconnects and raises the facade's own
\* error
facade_connect(f, connect_error, identify_error) ==
    IF connect_error # "none" THEN [connected |-> FALSE, raised |-> connect_error]
    ELSE IF identify_error # "none" THEN [connected |-> FALSE, raised |-> IdentifyFailure(f)]
    ELSE [connected |-> TRUE, raised |-> "none"]

\* write, query and read_raw hand the call to the connection
facade_io(error) == error

\* _get_command: RuntimeError before connect, else the catalog's answer
facade_get_command(connected, error) == IF ~connected THEN "RuntimeError" ELSE error

\* FunctionGenerator.all_outputs_off: channel.disable() inside try/except Exception
all_outputs_off(connected, error) == "none"

\* DataLogger.start_logging: get_data_points/read_and_remove inside
\* try/except Exception in the loop
start_logging_read(error) == "none"

Done(f, connected, op, cause, raised) ==
    [family |-> f, connected |-> connected, op |-> op, cause |-> cause, raised |-> raised]

\* connect() when the transport's connect raises
OpConnectRefused ==
    \E f \in Facades, e \in TransportErrors :
        /\ ~fop.connected
        /\ fop' = Done(f, FALSE, "connect", e, facade_connect(f, e, "none").raised)
        /\ UNCHANGED notFacadeOps

\* connect() when the transport connects and *IDN? is answered or raises
OpConnectIdentify ==
    \E f \in Facades, e \in IOErrors \cup {"none"} :
        /\ ~fop.connected
        /\ fop' = Done(f, facade_connect(f, "none", e).connected, "connect", e,
                       facade_connect(f, "none", e).raised)
        /\ UNCHANGED notFacadeOps

OpDisconnect ==
    /\ fop.connected
    /\ fop' = Done(fop.family, FALSE, "disconnect", "none", "none")
    /\ UNCHANGED notFacadeOps

\* the operations that hand one call to the connection: write, query,
\* read_raw, and identify, reset, clear_status, get_error through them
IOOperations == {"write", "query", "read_raw", "identify", "reset", "clear_status", "get_error"}

\* such an operation on the facade; the transport of a facade that is not
\* connected raises ConnectionError
OpIO ==
    \E op \in IOOperations, e \in IOErrors \cup {"none"} :
        /\ fop.family # "none"
        /\ IF fop.connected THEN TRUE ELSE e = "ConnectionError"
        /\ fop' = Done(fop.family, fop.connected, op, e, facade_io(e))
        /\ UNCHANGED notFacadeOps

OpGetCommand ==
    \E e \in CatalogErrors \cup {"none"} :
        /\ fop.family \in {"awg", "daq"}
        /\ fop' = Done(fop.family, fop.connected, "_get_command",
                       IF fop.connected THEN e ELSE "none",
                       facade_get_command(fop.connected, e))
        /\ UNCHANGED notFacadeOps

OpAllOutputsOff ==
    \E e \in IOErrors \cup {"none"} :
        /\ fop.family = "awg"
        /\ fop.connected
        /\ fop' = Done(fop.family, fop.connected, "all_outputs_off", e,
                       all_outputs_off(fop.connected, e))
        /\ UNCHANGED notFacadeOps

OpLoggingRead ==
    \E e \in IOErrors \cup {"none"} :
        /\ fop.family = "daq"
        /\ fop.connected
        /\ fop' = Done(fop.family, fop.connected, "start_logging", e, start_logging_read(e))
        /\ UNCHANGED notFacadeOps

FacadeOpsInit ==
    /\ FacadeOpsIdle
    /\ impl = "socket" /\ sc = SocketInit /\ mc = MockInit /\ last = NoCall
    /\ ThreadsIdle
    /\ DecodeIdle
    /\ CatalogIdle
    /\ DetectIdle
    /\ RegistryIdle
    /\ AcquireIdle
    /\ SettersIdle
    /\ TwinIdle
    /\ CancelIdle
    /\ CannedIdle

FacadeOpsNext ==
    \/ OpConnectRefused
    \/ OpConnectIdentify
    \/ OpDisconnect
    \/ OpIO
    \/ OpGetCommand
    \/ OpAllOutputsOff
    \/ OpLoggingRead

SpecFacadeOps == FacadeOpsInit /\ [][FacadeOpsNext]_vars

\* C18: an error the transport or the catalog raised under a facade call
\* reaches the caller as the same kind of error: not as another kind, and not
\* as no error.
C18_ErrorsSurfaceUnchanged ==
    fop.cause # "none" => fop.raised = fop.cause

\* C18: the part that holds: outside connect's identification, all_outputs_off
\* and the logging loop, the error raised is the error met.
C18_PassThroughOperations ==
    (fop.cause # "none" /\ fop.op \in IOOperations \cup {"_get_command"}) =>
        fop.raised = fop.cause

(***************************************************************************)
(* The text of the errors SocketConnection raises.  A text is the set of   *)
(* the values its f-string embeds: "command" (the command argument),       *)
(* "host:port" (self.host and self.port) and "cause" (the socket error).   *)
(***************************************************************************)
\* "Not connected to oscilloscope"
NotConnectedText == {}

\* f"Command timeout: {command}"
CommandTimeoutText == {"command"}

\* f"Write error: {e}"
WriteErrorText == {"cause"}

\* "Read timeout"
ReadTimeoutText == {}

\* f"Read error: {e}"
ReadErrorText == {"cause"}

\* the text raised by write(command), given the connected flag before the call
\* and the kind of error
WriteText(pre, out) ==
    IF ~pre THEN NotConnectedText
    ELSE IF out = "TimeoutError" THEN CommandTimeoutText ELSE WriteErrorText

\* the text raised by read() and read_raw()
ReadText(pre, out) ==
    IF ~pre THEN NotConnectedText
    ELSE IF out = "TimeoutError" THEN ReadTimeoutText ELSE ReadErrorText

\* the text of the error the last call on the socket raised: query raises
\* what its write raises or, once the command is sent, what its read raises
RaisedText ==
    IF last.op = "write" THEN WriteText(last.pre, last.out)
    ELSE IF last.op = "query"
    THEN (IF last.sent THEN ReadText(TRUE, last.out) ELSE WriteText(last.pre, last.out))
    ELSE ReadText(last.pre, last.out)

SocketRaised ==
    /\ impl = "socket"
    /\ last.op \in IOOps
    /\ last.out \in TransportErrors

\* C19: every ConnectionError or TimeoutError raised by write, read, query or
\* read_raw carries the text of the failing command and the host:port of the
\* connection.
C19_ErrorTextHasCommandAndHost ==
    SocketRaised => {"command", "host:port"} \subseteq RaisedText

\* C19: what the texts do carry: the command, in the timeout of a write only.
C19_CommandOnlyInWriteTimeout ==
    SocketRaised =>
        /\ "host:port" \notin RaisedText
        /\ "command" \in RaisedText <=>
              (last.op \in {"write", "query"} /\ ~last.sent /\ last.pre
               /\ last.out = "TimeoutError")

(***************************************************************************)
(* The double against the socket transport: one sequence of calls made on  *)
(* a SocketConnection and on a MockConnection.  The socket side is free of *)
(* faults: connect succeeds, sendall and recv raise no socket error, the   *)
(* instrument stays up and everything it answers has arrived when a call   *)
(* reads.  A read that finds nothing still times out, as recv does.        *)
(***************************************************************************)
Twin(op, cmd, s, m, q, wr) ==
    [op |-> op, cmd |-> cmd, sout |-> s.out, mout |-> m.out, q |-> q, wr |-> wr]

\* MockConnection: write(command) followed by read()
MockWriteThenRead(m, cmd) ==
    LET w == MockWrite(m, cmd)
    IN  IF w.out # "ok" THEN w ELSE MockRead(w.c)

TwinDo(op, cmd, s, m, q, wr) ==
    /\ sc' = s.c
    /\ mc' = m.c
    /\ twin' = Twin(op, cmd, s, m, q, wr)
    /\ UNCHANGED <<impl, last, notTwin, cancelVars, cannedVars>>

TwinConnect ==
    TwinDo("connect", "none", SocketConnect(sc, "ok"), MockConnect(mc), <<>>, <<>>)

TwinDisconnect ==
    TwinDo("disconnect", "none", SocketDisconnect(sc), MockDisconnect(mc), <<>>, <<>>)

TwinWrite ==
    /\ sc.nsent < MaxSent
    /\ mc.writes < MaxMockLog
    /\ \E cmd \in Commands, nul \in BOOLEAN :
          TwinDo("write", cmd, SocketWrite(sc, cmd, "none", nul), MockWrite(mc, cmd), <<>>, <<>>)

TwinRead ==
    \E n \in 0..(Len(sc.rxbuf) + Len(sc.inflight)) :
       /\ ReadChoiceOK(sc, Len(sc.inflight), n)
       /\ TwinDo("read", "none", SocketRead(sc, "none", Len(sc.inflight), n), MockRead(mc),
                 <<>>, <<>>)

TwinQuery ==
    /\ sc.nsent < MaxSent
    /\ mc.writes < MaxMockLog
    /\ mc.queries < MaxMockLog
    /\ \E cmd \in Commands, nul \in BOOLEAN :
          LET w == SocketWrite(sc, cmd, "none", nul)
          IN  \E n \in 0..(Len(w.c.rxbuf) + Len(w.c.inflight)) :
                 /\ ReadChoiceOK(w.c, Len(w.c.inflight), n)
                 /\ TwinDo("query", cmd,
                           SocketQuery(sc, cmd, "none", nul, "none", Len(w.c.inflight), n),
                           MockQuery(mc, cmd),
                           MockQuery(mc, cmd), MockWriteThenRead(mc, cmd))

TwinReadRaw ==
    \E size \in 0..2 :
       TwinDo("read_raw", "none", SocketReadRaw(sc, size, "none", Len(sc.inflight)),
              MockReadRaw(mc, size), <<>>, <<>>)

TwinInit ==
    /\ TwinIdle
    /\ impl = "socket" /\ sc = SocketInit /\ mc = MockInit /\ last = NoCall
    /\ ThreadsIdle
    /\ DecodeIdle
    /\ CatalogIdle
    /\ DetectIdle
    /\ RegistryIdle
    /\ AcquireIdle
    /\ SettersIdle
    /\ FacadeOpsIdle
    /\ CancelIdle
    /\ CannedIdle

TwinNext ==
    \/ TwinConnect
    \/ TwinDisconnect
    \/ TwinWrite
    \/ TwinRead
    \/ TwinQuery
    \/ TwinReadRaw

SpecTwin == TwinInit /\ [][TwinNext]_vars

\* the two transports agree on the connected flag
SameConnectedFlag == sc.connected = mc.connected

\* they agree on whether the last call failed with ConnectionError
SameConnectionErrors == (twin.sout = "ConnectionError") <=> (twin.mout = "ConnectionError")

\* the double's query did to the double, and returned, what its write
\* followed by its read does
QueryIsWriteThenRead == twin.op = "query" => twin.q = twin.wr

\* C20: after every sequence of connect, disconnect, write, read, query and
\* read_raw calls the double and a fault-free socket connection have the same
\* connected flag, the same calls failed with ConnectionError, and the
\* double's query(c) has the effect of write(c) followed by read().
C20_MockRefinesSocket ==
    /\ SameConnectedFlag
    /\ SameConnectionErrors
    /\ QueryIsWriteThenRead

\* C20: the part that holds: until a sized read_raw finds less than it asked
\* for, the flags and the ConnectionErrors agree.
C20_AgreeButSizedReadRaw ==
    (sc.sock # "broken" /\ ~(twin.op = "read_raw" /\ twin.sout = "ConnectionError")) =>
        (SameConnectedFlag /\ SameConnectionErrors)

(***************************************************************************)
(* disconnect() on the transport the behaviour drives.                     *)
(***************************************************************************)
\* what disconnect() returns in the current state, and the connection it leaves
DisconnectNow ==
    IF impl = "socket" THEN SocketDisconnect(sc) ELSE MockDisconnect(mc)

DisconnectAgain ==
    IF impl = "socket" THEN SocketDisconnect(DisconnectNow.c) ELSE MockDisconnect(DisconnectNow.c)

\* C21: in every reachable state of either transport disconnect() raises
\* nothing and leaves connected false, a second disconnect() in a row leaves
\* the state of the first, and after a disconnect() call the transport is not
\* connected.
C21_DisconnectIdempotent ==
    /\ DisconnectNow.out = "ok"
    /\ ~DisconnectNow.c.connected
    /\ DisconnectAgain = DisconnectNow
    /\ last.op = "disconnect" =>
          /\ last.out = "ok"
          /\ IF impl = "socket" THEN ~sc.connected /\ sc.sock = "None" ELSE ~mc.connected
          /\ DisconnectNow.c = (IF impl = "socket" THEN sc ELSE mc)

\* C21 witness: disconnect() was called on a socket transport right after a
\* read that failed with a socket error.
C21_Witness ==
    /\ impl = "socket"
    /\ last.op = "disconnect"
    /\ last.pop = "read"
    /\ last.pout = "ConnectionError"
    /\ ~last.pre
    /\ sc = SocketInit

\* C22: whatever way a read_raw without size ends (data drained, peer closed,
\* secondary timeout fired, socket error), the timeout on the socket is the
\* primary one afterwards, so every later call runs under the primary timeout.
C22_PrimaryTimeoutRestored ==
    impl = "socket" => sc.tmo = "primary"

\* C22 witness: a read_raw without size on a connected socket whose peer is up
\* ended with nothing drained, i.e. by the secondary timeout.
C22_Witness ==
    /\ impl = "socket"
    /\ last.op = "read_raw"
    /\ last.pre
    /\ last.out = "ok"
    /\ last.val = <<>>
    /\ sc.peer = "up"
    /\ sc.tmo = "primary"

(***************************************************************************)
(* read() against every way the answer can arrive: k items arrive while    *)
(* the call blocks, in any split into chunks.                              *)
(***************************************************************************)
HasTerminator(stream) == \E i \in 1..Len(stream) : stream[i].b = "nl"

FirstTerminator(stream) ==
    CHOOSE i \in 1..Len(stream) :
        /\ stream[i].b = "nl"
        /\ \A j \in 1..(i - 1) : stream[j].b # "nl"

\* the first line of the stream, without its terminator and leading NUL bytes
FirstLine(stream) == LStrip(Take(stream, FirstTerminator(stream) - 1), {"nul"})

\* the stream a read() that meets k more items sees
StreamAt(k) == sc.rxbuf \o Take(sc.inflight, k)

\* C23: read() returns as soon as the bytes received contain a terminator,
\* however the answer is split into chunks, with the text before that
\* terminator less its leading NUL bytes; it raises TimeoutError only when no
\* terminator arrived.
C23_ReadReturnsAtFirstTerminator ==
    (impl = "socket" /\ ~NotConnected(sc) /\ sc.peer = "up") =>
        \A k \in 0..Len(sc.inflight), n \in 0..(Len(sc.rxbuf) + Len(sc.inflight)) :
            ReadChoiceOK(sc, k, n) =>
                LET r == SocketRead(sc, "none", k, n)
                IN  /\ HasTerminator(StreamAt(k)) =>
                          (r.out = "ok" /\ r.val = FirstLine(StreamAt(k)))
                    /\ r.out = "TimeoutError" => ~HasTerminator(StreamAt(k))

\* C23: the part that holds: read() returns when the bytes received end with
\* a terminator, the text it returns neither starts with a NUL byte nor ends
\* with a terminator, and it raises TimeoutError only when the bytes received
\* do not end with a terminator.
C23_ReadReturnsAtTrailingTerminator ==
    (impl = "socket" /\ ~NotConnected(sc) /\ sc.peer = "up") =>
        \A k \in 0..Len(sc.inflight), n \in 0..(Len(sc.rxbuf) + Len(sc.inflight)) :
            ReadChoiceOK(sc, k, n) =>
                LET r      == SocketRead(sc, "none", k, n)
                    stream == StreamAt(k)
                IN  /\ r.out \in {"ok", "TimeoutError"}
                    /\ r.out = "ok" =>
                          /\ n > 0 /\ stream[n].b = "nl"
                          /\ r.val = <<>> \/ (Head(r.val).b \notin {"nul", "nl"}
                                               /\ r.val[Len(r.val)].b # "nl")
                    /\ r.out = "TimeoutError" =>
                          (stream = <<>> \/ stream[Len(stream)].b # "nl")

\* the sizes a sized read_raw is asked for
RawSizes == {1, 2}

\* C24: a read_raw(size) on a connected socket returns size bytes whenever it
\* returns; when the peer closes or stalls before that it fails, and a stall is
\* a TimeoutError that leaves the connection marked connected.
C24_SizedReadRawExact ==
    (impl = "socket" /\ ~NotConnected(sc)) =>
        \A size \in RawSizes, k \in 0..Len(sc.inflight) :
            LET r == SocketReadRaw(sc, size, "none", k)
            IN  /\ r.out = "ok" => Len(r.val) = size
                /\ Len(StreamAt(k)) < size =>
                      /\ r.out # "ok"
                      /\ sc.peer = "up" => (r.out = "TimeoutError" /\ r.c.connected)

\* C24: the part that holds: a sized read_raw returns at most size bytes, and
\* exactly size of them when that many arrive.
C24_SizedReadRawAtMost ==
    (impl = "socket" /\ ~NotConnected(sc)) =>
        \A size \in RawSizes, k \in 0..Len(sc.inflight) :
            LET r == SocketReadRaw(sc, size, "none", k)
            IN  /\ r.out = "ok" => Len(r.val) <= size
                /\ Len(StreamAt(k)) >= size => (r.out = "ok" /\ Len(r.val) = size)

MaxChannels == 2

\* LiveViewWorker._acquire_waveforms: for each channel, `channel.enabled`, then
\* get_waveform when it is enabled
RECURSIVE LiveCycleFrom(_)
LiveCycleFrom(ch) ==
    IF ch > MaxChannels THEN <<>>
    ELSE <<[req |-> "enabled", ch |-> ch], [req |-> "get_waveform", ch |-> ch]>>
         \o LiveCycleFrom(ch + 1)

LiveCycle == LiveCycleFrom(1)

\* DAQWorker._configure_daq: set_scan_list, set_trigger_source, set_trigger_count
DAQConfigure ==
    <<[req |-> "set_scan_list", ch |-> 0], [req |-> "set_trigger_source", ch |-> 0],
      [req |-> "set_trigger_count", ch |-> 0]>>

\* DAQWorker._acquire_readings: self.daq.read()
DAQCycle == <<[req |-> "read", ch |-> 0]>>

RequestOutcomes == {"ok", "TimeoutError", "ConnectionError"}

\* QThread.start(): run() is scheduled on the new thread
WorkerThreadStart ==
    /\ wk.pc = "unstarted"
    /\ wk' = [wk EXCEPT !.pc = "starting"]
    /\ UNCHANGED notCancel

\* run() up to its loop: self.running = True; DAQWorker then configures, and
\* gives up when the data logger is not connected
WorkerRun ==
    /\ wk.pc = "starting"
    /\ wk' = IF wk.kind = "live"
             THEN [wk EXCEPT !.running = TRUE, !.pc = "test"]
             ELSE IF ~wk.connected
             THEN [wk EXCEPT !.running = FALSE, !.pc = "stopped"]
             ELSE [wk EXCEPT !.running = TRUE, !.pc = "ready", !.phase = "configure",
                             !.todo = DAQConfigure]
    /\ UNCHANGED notCancel

\* `while self.running:`, then the start of a cycle, which is empty when the
\* facade is not connected
WorkerTest ==
    /\ wk.pc = "test"
    /\ wk' = IF ~wk.running THEN [wk EXCEPT !.pc = "stopped"]
             ELSE LET w == [wk EXCEPT !.newCycle = @ \/ wk.stopAsked]
                  IN  IF ~wk.connected THEN [w EXCEPT !.pc = "sleep"]
                      ELSE [w EXCEPT !.pc = "ready", !.phase = "cycle",
                                     !.todo = IF wk.kind = "live" THEN LiveCycle
                                              ELSE DAQCycle]
    /\ UNCHANGED notCancel

\* DAQWorker: `if elapsed >= self.duration: break`
WorkerDurationReached ==
    /\ wk.pc = "test"
    /\ wk.kind = "daq"
    /\ wk.limited
    /\ wk.running
    /\ wk' = [wk EXCEPT !.pc = "stopped"]
    /\ UNCHANGED notCancel


\* what is left of the phase after a request: an exception ends the
\* configuration and, in a live view cycle, the channel; a channel that is
\* not enabled is not acquired
RestAfter(w, outcome, enabled) ==
    IF w.phase = "configure"
    THEN (IF outcome = "ok" THEN Tail(w.todo) ELSE <<>>)
    ELSE IF Head(w.todo).req = "enabled"
    THEN (IF outcome = "ok" THEN (IF enabled THEN Tail(w.todo) ELSE Tail(Tail(w.todo)))
          ELSE Tail(Tail(w.todo)))
    ELSE Tail(w.todo)

\* the next request of the cycle goes to the instrument; on a closed
\* connection the call raises ConnectionError and nothing is sent
WorkerIssue ==
    /\ wk.pc = "ready"
    /\ wk.todo # <<>>
    /\ wk' = IF wk.connected
             THEN [wk EXCEPT !.pc = "inflight",
                             !.late = @ \/ (wk.stopAsked /\ wk.doneSinceStop)]
             ELSE LET rest == RestAfter(wk, "ConnectionError", FALSE)
                  IN  IF wk.phase = "configure"
                      THEN [wk EXCEPT !.todo = rest, !.running = FALSE, !.pc = "stopped"]
                      ELSE [wk EXCEPT !.todo = rest,
                                      !.pc = IF rest # <<>> THEN "ready" ELSE "sleep"]
    /\ UNCHANGED notCancel

\* the request in flight completes, times out or fails
WorkerDone ==
    /\ wk.pc = "inflight"
    /\ \E outcome \in RequestOutcomes, enabled \in BOOLEAN :
          LET rest == RestAfter(wk, outcome, enabled)
              w    == [wk EXCEPT !.todo = rest,
                                 !.connected = IF outcome = "ConnectionError" THEN FALSE ELSE @,
                                 !.doneSinceStop = @ \/ wk.stopAsked]
          IN  wk' = IF wk.phase = "configure" /\ outcome # "ok"
                    THEN [w EXCEPT !.running = FALSE, !.pc = "stopped"]
                    ELSE IF rest # <<>> THEN [w EXCEPT !.pc = "ready"]
                    ELSE IF wk.phase = "configure" THEN [w EXCEPT !.pc = "test"]
                    ELSE [w EXCEPT !.pc = "sleep"]
    /\ UNCHANGED notCancel

\* self.msleep(...)
WorkerSleep ==
    /\ wk.pc = "sleep"
    /\ wk' = [wk EXCEPT !.pc = "test"]
    /\ UNCHANGED notCancel

\* stop(), from the GUI thread: self.running = False (the wait that follows
\* gives up after two seconds)
WorkerStop ==
    /\ wk.pc \notin {"unstarted", "stopped"}
    /\ ~wk.stopAsked
    /\ wk' = [wk EXCEPT !.running = FALSE, !.stopAsked = TRUE,
                        !.raced = (wk.pc = "starting")]
    /\ UNCHANGED notCancel

\* the instrument's connection is closed from the GUI thread
WorkerDisconnect ==
    /\ wk.connected
    /\ wk.pc # "inflight"
    /\ wk' = [wk EXCEPT !.connected = FALSE]
    /\ UNCHANGED notCancel

CancelInit ==
    /\ wk \in {NoWorker(kind, limited) : kind \in {"live", "daq"}, limited \in BOOLEAN}
    /\ impl = "socket" /\ sc = SocketInit /\ mc = MockInit /\ last = NoCall
    /\ ThreadsIdle
    /\ DecodeIdle
    /\ CatalogIdle
    /\ DetectIdle
    /\ RegistryIdle
    /\ AcquireIdle
    /\ SettersIdle
    /\ FacadeOpsIdle
    /\ TwinIdle
    /\ CannedIdle

WorkerStep ==
    \/ WorkerRun
    \/ WorkerTest
    \/ WorkerIssue
    \/ WorkerDone
    \/ WorkerSleep

CancelNext ==
    \/ WorkerThreadStart
    \/ WorkerStep
    \/ WorkerDurationReached
    \/ WorkerStop
    \/ WorkerDisconnect

SpecCancel == CancelInit /\ [][CancelNext]_vars

\* the worker thread is scheduled, a request ends within the timeout and a
\* sleep ends
SpecCancelFair == SpecCancel /\ WF_vars(WorkerStep)

\* C26: once stop() has been requested and a request has since completed or
\* timed out, the worker issues no further request to the instrument.
C26_NoRequestAfterStop == ~wk.late

\* C26: once stop() has been requested the worker's loop terminates.
C26_StopTerminates == wk.stopAsked ~> (wk.pc = "stopped")

\* C26: the part that holds: a stop() requested after run() set the flag lets
\* the worker finish the cycle it is in and start no other.
C26_NoNewCycleAfterStop == (wk.stopAsked /\ ~wk.raced) => (~wk.newCycle /\ ~wk.running)

\* C26: and such a stop() is followed by the end of the loop.
C26_StopAfterRunTerminates == (wk.stopAsked /\ ~wk.raced) ~> (wk.pc = "stopped")

(***************************************************************************)
(* The facades' lifecycle: model_capability and _scpi_commands over        *)
(* connect() and disconnect().                                             *)
(***************************************************************************)
\* a facade whose capability and command set are both set, for the same
\* variant and with the transport connected, or both None with the transport
\* disconnected
LifecycleOK(fc) ==
    /\ (fc.model_capability = NoCapability) <=> (fc.variant = "")
    /\ fc.connected =>
          /\ fc.model_capability # NoCapability
          /\ fc.variant = fc.model_capability.cap.scpi_variant
    /\ ~fc.connected => (fc.model_capability = NoCapability /\ fc.variant = "")

\* C27: after any sequence of connect() and disconnect() calls, failed
\* connects included, the facade's capability is set exactly when its command
\* set is; connected, both are set for the same variant; after a disconnect
\* or a failed connect both are None and the transport is disconnected.  The
\* same holds for the facade a connect() or disconnect() called now leaves.
C27_FacadeLifecycle ==
    /\ LifecycleOK(facade)
    /\ facade.raised # "none" => ~facade.connected
    /\ \A f \in Families, s \in IdnSample : LifecycleOK(Identified(f, s).facade)
    /\ LifecycleOK(Disconnected("SiglentConnectionError"))
    /\ LifecycleOK(Disconnected("none"))

\* a connect that failed during identification, on a facade that had been
\* connected and disconnected before
C27_Witness ==
    /\ facade.raised = "SiglentConnectionError"
    /\ facade.cycled
    /\ ~facade.connected
    /\ facade.model_capability = NoCapability
    /\ facade.variant = ""

(***************************************************************************)
(* The connected flag of the socket transport over errors and timeouts.    *)
(***************************************************************************)
\* every write, read, query and read_raw made now fails with ConnectionError
\* and leaves the transport as it is
AllIOFailsNow ==
    /\ \A cmd \in Commands, f \in WriteFaults, nul \in BOOLEAN :
          /\ SocketWrite(sc, cmd, f, nul) = Ret(sc, "ConnectionError", <<>>)
          /\ \A rf \in ReadFaults :
                SocketQuery(sc, cmd, f, nul, rf, 0, 0) = Ret(sc, "ConnectionError", <<>>)
    /\ \A f \in ReadFaults, k \in 0..Len(sc.inflight), n \in 0..Len(sc.rxbuf) :
          SocketRead(sc, f, k, n) = Ret(sc, "ConnectionError", <<>>)
    /\ \A size \in 0..2, f \in ReadFaults, k \in 0..Len(sc.inflight) :
          SocketReadRaw(sc, size, f, k) = Ret(sc, "ConnectionError", <<>>)

\* C28: a write, read, query or read_raw that met a socket error on a
\* connected transport leaves it marked disconnected; while it is marked
\* disconnected every write, read, query and read_raw fails with
\* ConnectionError, a failed connect() leaves it so and a successful one gives
\* a connected transport on a new socket; a write, read or query that timed
\* out leaves the flag true; connect() on a connected transport changes
\* nothing.
C28_ConnectedFlag ==
    impl = "socket" =>
        /\ (last.op \in IOOps /\ last.pre /\ last.out = "ConnectionError") =>
              (~sc.connected /\ sc.sock = "broken")
        /\ ~sc.connected =>
              /\ AllIOFailsNow
              /\ \A o \in ConnectOutcomes \ {"ok"} : ~SocketConnect(sc, o).c.connected
              /\ SocketConnect(sc, "ok").c = [SocketInit EXCEPT !.connected = TRUE, !.sock = "open"]
        /\ (last.op \in {"write", "read", "query"} /\ last.out = "TimeoutError") => sc.connected
        /\ sc.connected =>
              /\ sc.sock = "open"
              /\ \A o \in ConnectOutcomes : SocketConnect(sc, o) = Ret(sc, "ok", <<>>)
        /\ (last.op = "connect" /\ last.pre) => (last.out = "ok" /\ sc.connected)

\* a read that fails on a transport which a socket error in write had marked
\* disconnected
C28_Witness ==
    /\ impl = "socket"
    /\ last.op = "read"
    /\ ~last.pre
    /\ last.out = "ConnectionError"
    /\ last.pop = "write"
    /\ last.pout = "ConnectionError"
    /\ sc.sock = "broken"
    /\ sc.nsent > 0

(***************************************************************************)
(* The configure_* helpers of an AWGOutput channel: assignments to the     *)
(* channel's properties, one after the other.  An assignment that raises   *)
(* ends the helper; what the earlier ones wrote stays written.             *)
(***************************************************************************)
\* An execution that validates every value before it writes anything.
RECURSIVE InOrder_AllOrNothing(_)
InOrder_AllOrNothing(steps) ==
    IF \E i \in DOMAIN steps : steps[i].raised # "none"
    THEN [raised |-> steps[CHOOSE i \in DOMAIN steps :
                              /\ steps[i].raised # "none"
                              /\ \A j \in 1..(i - 1) : steps[j].raised = "none"].raised,
          sent |-> <<>>]
    ELSE IF steps = <<>> THEN [raised |-> "none", sent |-> <<>>]
    ELSE LET rest == InOrder_AllOrNothing(Tail(steps))
         IN  [raised |-> "none", sent |-> Head(steps).sent \o rest.sent]

\* statements run one after the other, up to the first that raises
RECURSIVE InOrder(_)
InOrder(steps) ==
    IF steps = <<>> THEN [raised |-> "none", sent |-> <<>>]
    ELSE IF Head(steps).raised # "none" THEN Head(steps)
    ELSE LET rest == InOrder(Tail(steps))
         IN  [raised |-> rest.raised, sent |-> Head(steps).sent \o rest.sent]

configure_sine(variant, ch, frequency, amplitude, offset) ==
    InOrder(<<set_function(variant, ch, <<"S", "I", "N", "E">>),
              set_frequency(variant, ch, frequency),
              set_amplitude(variant, ch, amplitude),
              set_offset(variant, ch, offset)>>)

configure_square(variant, ch, frequency, amplitude, offset) ==
    InOrder(<<set_function(variant, ch, <<"S", "Q", "U", "A", "R", "E">>),
              set_frequency(variant, ch, frequency),
              set_amplitude(variant, ch, amplitude),
              set_offset(variant, ch, offset)>>)

configure_pulse(variant, ch, frequency, amplitude, duty_cycle, offset) ==
    InOrder(<<set_function(variant, ch, <<"P", "U", "L", "S", "E">>),
              set_frequency(variant, ch, frequency),
              set_amplitude(variant, ch, amplitude),
              set_offset(variant, ch, offset),
              set_pulse_duty_cycle(variant, ch, duty_cycle)>>)

configure_ramp(variant, ch, frequency, amplitude, symmetry, offset) ==
    InOrder(<<set_function(variant, ch, <<"R", "A", "M", "P">>),
              set_frequency(variant, ch, frequency),
              set_amplitude(variant, ch, amplitude),
              set_offset(variant, ch, offset),
              set_ramp_symmetry(variant, ch, symmetry)>>)

\* values a caller passes to a helper; the helpers keep nothing from one call
\* to the next, so a behaviour is one call
ConfigureValues == {NaN} \cup {Num(n) : n \in {-1, 0, 2, 4, 50, 101}}

ConfigureArgs(frequency, amplitude, offset, extra) ==
    [frequency |-> frequency, amplitude |-> amplitude, offset |-> offset, extra |-> extra]

ConfigureSine ==
    /\ call = NotCalled
    /\ \E variant \in Variants, ch \in OutputChannels, f \in ConfigureValues, a \in ConfigureValues, o \in ConfigureValues :
           /\ call' = Called("configure_sine", variant, ch, ConfigureArgs(f, a, o, Num(0)),
                             configure_sine(variant, ch, f, a, o))
           /\ UNCHANGED notSetters

ConfigureSquare ==
    /\ call = NotCalled
    /\ \E variant \in Variants, ch \in OutputChannels, f \in ConfigureValues, a \in ConfigureValues, o \in ConfigureValues :
           /\ call' = Called("configure_square", variant, ch, ConfigureArgs(f, a, o, Num(0)),
                             configure_square(variant, ch, f, a, o))
           /\ UNCHANGED notSetters

ConfigurePulse ==
    /\ call = NotCalled
    /\ \E variant \in Variants, ch \in OutputChannels, f \in ConfigureValues, a \in ConfigureValues, o \in ConfigureValues, d \in ConfigureValues :
           /\ call' = Called("configure_pulse", variant, ch, ConfigureArgs(f, a, o, d),
                             configure_pulse(variant, ch, f, a, d, o))
           /\ UNCHANGED notSetters

ConfigureRamp ==
    /\ call = NotCalled
    /\ \E variant \in Variants, ch \in OutputChannels, f \in ConfigureValues, a \in ConfigureValues, o \in ConfigureValues, y \in ConfigureValues :
           /\ call' = Called("configure_ramp", variant, ch, ConfigureArgs(f, a, o, y),
                             configure_ramp(variant, ch, f, a, y, o))
           /\ UNCHANGED notSetters

ConfigureNext ==
    \/ ConfigureSine
    \/ ConfigureSquare
    \/ ConfigurePulse
    \/ ConfigureRamp

SpecConfigure == SettersInit /\ [][ConfigureNext]_vars

ConfigureOps == {"configure_sine", "configure_square", "configure_pulse", "configure_ramp"}

\* the waveform a helper selects
WaveformOf(op) ==
    CASE op = "configure_sine" -> <<"S", "I", "N", "E">>
      [] op = "configure_square" -> <<"S", "Q", "U", "A", "R", "E">>
      [] op = "configure_pulse" -> <<"P", "U", "L", "S", "E">>
      [] OTHER -> <<"R", "A", "M", "P">>

\* what each value's own setter does with it, in the order function,
\* frequency, amplitude, offset, then duty cycle or symmetry
OwnSetters(c) ==
    <<set_function(c.variant, c.ch, WaveformOf(c.op)),
      set_frequency(c.variant, c.ch, c.value.frequency),
      set_amplitude(c.variant, c.ch, c.value.amplitude),
      set_offset(c.variant, c.ch, c.value.offset)>>
    \o (IF c.op = "configure_pulse"
        THEN <<set_pulse_duty_cycle(c.variant, c.ch, c.value.extra)>>
        ELSE IF c.op = "configure_ramp"
        THEN <<set_ramp_symmetry(c.variant, c.ch, c.value.extra)>>
        ELSE <<>>)

\* the first value whose setter raises, one past the last when none does
FirstRaising(plan) ==
    IF \E i \in DOMAIN plan : plan[i].raised # "none"
    THEN CHOOSE i \in DOMAIN plan :
            /\ plan[i].raised # "none"
            /\ \A j \in 1..(i - 1) : plan[j].raised = "none"
    ELSE Len(plan) + 1

\* C29: a configure helper writes, in the order function, frequency,
\* amplitude, offset, then duty cycle or symmetry, the commands of the values
\* before the first one that its setter rejects, raises that setter's error
\* and writes nothing for the later values; when no value is rejected it
\* writes them all.
C29_ConfigureStopsAtFirstRejected ==
    call.op \in ConfigureOps =>
        LET plan == OwnSetters(call)
            k    == FirstRaising(plan)
        IN  /\ Len(call.sent) = k - 1
            /\ \A i \in 1..(k - 1) : <<call.sent[i]>> = plan[i].sent
            /\ call.raised = (IF k <= Len(plan) THEN plan[k].raised ELSE "none")
            /\ call.raised = "InvalidParameterError" => k > 1

\* a pulse whose duty cycle is rejected after the four commands before it
\* were written
C29_Witness ==
    /\ call.op = "configure_pulse"
    /\ call.raised = "InvalidParameterError"
    /\ Len(call.sent) = 4
    /\ set_pulse_duty_cycle(call.variant, call.ch, call.value.extra).raised
          = "InvalidParameterError"

(***************************************************************************)
(* Canned responses of MockConnection: a custom response is a string or a  *)
(* list of strings keyed by the exact command text; the trigger status is  *)
(* a list.  The double is connected.                                       *)
(***************************************************************************)
\* queries made of the double
MaxQueries == 5

CustomKeys == {"MEAS?", "TRIG:STAT?"}

QueryCommands == {"MEAS?", "TRIG:STAT?", ":TRIG:STAT?", "trig:stat?", "SARA?"}

\* command.upper()
CommandUpper(command) == IF command = "trig:stat?" THEN "TRIG:STAT?" ELSE command

Answer(m, list, out, val) == [m |-> m, list |-> list, out |-> out, val |-> val]

\* A query that pops the last element of a list as well.
mock_query_PopsLast(m, command) ==
    IF command \in CustomKeys /\ m.custom_responses[command].kind # "absent"
    THEN LET override == m.custom_responses[command]
         IN  IF override.kind = "list"
             THEN (IF Len(override.items) >= 1
                   THEN Answer([m EXCEPT !.custom_responses[command].items = Tail(@)],
                               command, "ok", Head(override.items))
                   ELSE Answer(m, command, "IndexError", ""))
             ELSE Answer(m, "none", "ok", override.items[1])
    ELSE IF CommandUpper(command) \in {":TRIG:STAT?", "TRIG:STAT?"}
    THEN (IF Len(m.trigger_status) >= 1
          THEN Answer([m EXCEPT !.trigger_status = Tail(@)], "status", "ok",
                      Head(m.trigger_status))
          ELSE Answer(m, "status", "IndexError", ""))
    ELSE Answer(m, "none", "ok", "")

\* query(command): the custom response for the command, else the trigger
\* status for a status query, else the empty string; a list gives up its
\* first element while it has more than one
mock_query(m, command) ==
    IF command \in CustomKeys /\ m.custom_responses[command].kind # "absent"
    THEN LET override == m.custom_responses[command]
         IN  IF override.kind = "list"
             THEN (IF Len(override.items) > 1
                   THEN Answer([m EXCEPT !.custom_responses[command].items = Tail(@)],
                               command, "ok", Head(override.items))
                   ELSE IF Len(override.items) = 0
                   THEN Answer(m, command, "IndexError", "")
                   ELSE Answer(m, command, "ok", override.items[1]))
             ELSE Answer(m, "none", "ok", override.items[1])
    ELSE IF CommandUpper(command) \in {":TRIG:STAT?", "TRIG:STAT?"}
    THEN (IF Len(m.trigger_status) > 1
          THEN Answer([m EXCEPT !.trigger_status = Tail(@)], "status", "ok",
                      Head(m.trigger_status))
          ELSE IF Len(m.trigger_status) = 0
          THEN Answer(m, "status", "IndexError", "")
          ELSE Answer(m, "status", "ok", m.trigger_status[1]))
    ELSE Answer(m, "none", "ok", "")

\* write("ARM"): `if len(self.trigger_status) <= 1: self.trigger_status =
\* ["Run", "Stop"]`
mock_write_arm(m) ==
    IF Len(m.trigger_status) <= 1 THEN [m EXCEPT !.trigger_status = <<"Run", "Stop">>]
    ELSE m

\* the arguments the double is made with
StatusArguments == {<<>>, <<"Stop">>, <<"Run">>, <<"Run", "Run", "Stop">>}

CustomArguments ==
    {Absent, [kind |-> "str", items |-> <<"1.0">>]}
    \cup {[kind |-> "list", items |-> l] : l \in {<<>>, <<"a">>, <<"a", "b">>, <<"a", "b", "c">>}}

CannedQuery ==
    /\ canned.ncalls < MaxQueries
    /\ \E command \in QueryCommands :
          LET r == mock_query(canned, command)
          IN  canned' = [r.m EXCEPT !.nq = IF r.list = "none" THEN @
                                           ELSE [@ EXCEPT ![r.list] = @ + 1],
                                    !.since_arm = IF r.list = "status" THEN @ + 1 ELSE @,
                                    !.ncalls = @ + 1,
                                    !.last = [cmd |-> command, list |-> r.list,
                                              out |-> r.out, val |-> r.val]]
    /\ UNCHANGED notCanned

CannedArm ==
    /\ canned.ncalls < MaxQueries
    /\ LET m == mock_write_arm(canned)
       IN  canned' = [m EXCEPT !.armed = TRUE, !.since_arm = 0, !.ncalls = @ + 1,
                               !.base = IF m.trigger_status # canned.trigger_status
                                        THEN [@ EXCEPT !.status = m.trigger_status] ELSE @,
                               !.nq = IF m.trigger_status # canned.trigger_status
                                      THEN [@ EXCEPT !.status = 0] ELSE @,
                               !.last = [cmd |-> "ARM", list |-> "none", out |-> "ok",
                                         val |-> ""]]
    /\ UNCHANGED notCanned

CannedInit ==
    /\ \E status \in StatusArguments, meas \in CustomArguments, stat \in {Absent, [kind |-> "list", items |-> <<"Ready", "Stop">>]} :
          canned = NewMock(status, [k \in CustomKeys |-> IF k = "MEAS?" THEN meas ELSE stat])
    /\ impl = "socket" /\ sc = SocketInit /\ mc = MockInit /\ last = NoCall
    /\ ThreadsIdle
    /\ DecodeIdle
    /\ CatalogIdle
    /\ DetectIdle
    /\ RegistryIdle
    /\ AcquireIdle
    /\ SettersIdle
    /\ FacadeOpsIdle
    /\ TwinIdle
    /\ CancelIdle

CannedNext == CannedQuery \/ CannedArm

SpecCanned == CannedInit /\ [][CannedNext]_vars

\* the canned list a name stands for, as it is now
ListNow(l) == IF l = "status" THEN canned.trigger_status ELSE canned.custom_responses[l].items

\* no status sequence of the caller's: none passed to the constructor and no
\* custom response for the status query
DefaultStatus ==
    /\ canned.status_given = <<>>
    /\ canned.custom_responses["TRIG:STAT?"].kind = "absent"

\* C30: a canned list that has elements keeps at least one; the k-th query
\* it answers returns its k-th element, and its last element once k is past
\* its length (write("ARM") puts Run, Stop in place of a status list of one
\* element).  With no status sequence of the caller's, the status queries
\* after write("ARM") return Run the first time and Stop every later time,
\* until the next ARM.
C30_CannedListsKeepLast ==
    /\ \A l \in {"MEAS?", "TRIG:STAT?", "status"} :
          canned.base[l] # <<>> => ListNow(l) # <<>>
    /\ (canned.last.list # "none" /\ canned.base[canned.last.list] # <<>>) =>
          LET base == canned.base[canned.last.list]
              k    == canned.nq[canned.last.list]
          IN  /\ canned.last.out = "ok"
              /\ canned.last.val = base[IF k < Len(base) THEN k ELSE Len(base)]
    /\ (DefaultStatus /\ canned.armed /\ canned.last.list = "status") =>
          canned.last.val = (IF canned.since_arm = 1 THEN "Run" ELSE "Stop")

\* the third status query after an ARM on a double made without a status
\* sequence, and a custom list queried past its end
C30_Witness ==
    /\ DefaultStatus
    /\ canned.armed
    /\ canned.since_arm = 3
    /\ canned.last.list = "status"
    /\ canned.last.val = "Stop"
    /\ canned.trigger_status = <<"Stop">>
====
